---- MODULE Spec2Model ----
(***************************************************************************)
(* Verification model of libbitcoin-blockchain:                            *)
(*   - transaction_pool  (src/src/transaction_pool.cpp)                    *)
(*   - validate_block::check_block, accept_block, work_required,           *)
(*     connect_block (src/src/validate_block.cpp)                          *)
(*   - populate_block (src/src/populate/populate_block.cpp)                *)
(* Each component has its own specification (PoolSpec, CheckSpec,          *)
(* AcceptSpec, ConnectSpec, PopulateSpec); the variables of the other      *)
(* components stay at their initial values.                                *)
(***************************************************************************)
EXTENDS Integers, Sequences, FiniteSets, TLC

VARIABLES
    \* ---- transaction_pool ----
    stopped_,       \* transaction_pool::stopped_
    replied,        \* the fetch or exists handler call of the step just taken
    capacity,       \* buffer_.capacity()
    buffer_,        \* the circular buffer, front first: entries {hash, tx, handle_confirm}
    dispatch_,      \* the ordered dispatcher's queue of work items (FIFO)
    validating,     \* store calls whose validate_transaction is in flight
    calls,          \* one record per store() call: its tx and what its two handlers received
    subscriptions,  \* reorganize handlers currently subscribed to the organizer
    forks,          \* fork events delivered so far
    moved_from,     \* what this build leaves in a moved-from std::function
    terminated,     \* an exception escaped a work item
    \* ---- validate_block::check_block ----
    block,          \* current_block_
    now,            \* current_time()
    stop_callback_, \* value stop_callback_() returns
    pc,             \* position inside check_block
    it,             \* loop index of the two transaction loops
    result,         \* error codes passed to complete()
    \* ---- validate_block: chain context of accept_block / connect_block ----
    height_,        \* validate_block::height_
    checkpoints_,   \* validate_block::checkpoints_: set of <<height, hash>>
    chain,          \* what the virtual chain queries answer for this block
    \* ---- validate_block::connect_block ----
    pending,        \* work posted to the dispatcher and not yet run
    joins,          \* the synchronizers of dispatch_.parallel: count and clearance
    called,         \* calls made so far by the work of connect_block
    \* ---- populate_block ----
    state,          \* what fast_chain_.chain_state(block) returns
    stale,          \* what fast_chain_.is_blocks_stale() returns now
    inputs,         \* number of inputs of each transaction of the block
    threads,        \* dispatch_.size()
    buckets,        \* bucket count of the populate call, 0 before it is chosen
    bucket_at,      \* position of each populate_transactions call
    populated,      \* populate_transaction / populate_output calls made so far
    join_handler,   \* the synchronizer of the buckets: count and clearance
    handled,        \* error codes passed to the result handler
    \* ---- populate_chain_state ----
    indexed_top,    \* height of the top block of fast_chain_, -1 when it has none
    branch,         \* the header branch: fork point, size, state of the top's parent
    forks_,         \* checkpoints_ and forks_, by what they make get_map request
    map,            \* what chain_state::get_map returned for data.height
    data,           \* chain_state::data being populated
    queries,        \* getter calls made so far, in order: who, kind, height
    engine,         \* position inside populate_chain_state::populate
    returned,       \* what populate returned: <<>> before it returns
    entered,        \* calls populate made before populate_all: call, height
    \* ---- organizer ----
    headers,        \* the blocks there are: parent and work of each
    indexed,        \* the indexed chain above genesis, lowest first
    orphans,        \* the blocks in the orphan pool
    invalid,        \* the blocks clipped from the pool
    subscribers,    \* the handlers subscribed to the next fork event
    events,         \* the fork events emitted, in commit order
    observed,       \* per subscriber, the events its handler received
    \* ---- validate_block::connect_input ----
    prevout,        \* the input's previous output and what the checks find
    previous_tx_out,\* the output connect_input bound at previous_output.index
    input_pc,       \* position inside validate_inputs and connect_input
    connected,      \* values returned by the connect_input calls, in order
    total_sigops,   \* total_sigops of validate_inputs
    value_in,       \* value_in of validate_inputs
    added           \* the output values added to value_in, in order

poolVars == <<stopped_, capacity, buffer_, dispatch_, validating, calls,
              subscriptions, forks, moved_from, terminated, replied>>
checkVars == <<block, now, stop_callback_, pc, it, result>>
chainVars == <<height_, checkpoints_, chain>>
connectVars == <<pending, joins, called>>
populateVars == <<state, stale, inputs, threads, buckets, bucket_at, populated,
                  join_handler, handled>>
engineVars == <<indexed_top, branch, forks_, map, data, queries, engine, returned,
                entered>>
organizerVars == <<headers, indexed, orphans, invalid, subscribers, events,
                   observed>>
inputVars == <<prevout, previous_tx_out, input_pc, connected, total_sigops,
               value_in, added>>
otherVars == <<engineVars, organizerVars, inputVars>>
restVars == <<chainVars, connectVars, populateVars, otherVars>>
vars == <<poolVars, checkVars, restVars>>

\* accept_block and connect_block are not running: no chain context.
ChainIdle ==
    /\ height_ = 0
    /\ checkpoints_ = {}
    /\ chain = <<>>

\* connect_block is not running: nothing posted.
ConnectIdle ==
    /\ pending = {}
    /\ joins = <<>>
    /\ called = {}

\* populate_block is not running.
PopulateIdle ==
    /\ state = "null"
    /\ stale = FALSE
    /\ inputs = <<>>
    /\ threads = 1
    /\ buckets = 0
    /\ bucket_at = <<>>
    /\ populated = [transactions |-> <<>>, outputs |-> <<>>, coinbase |-> <<>>]
    /\ join_handler = [count |-> 0, clearance |-> 0]
    /\ handled = <<>>

\* populate_chain_state is not running.
EngineIdle ==
    /\ indexed_top = -1
    /\ branch = [fork_height |-> 0, size |-> 0, parent_state |-> FALSE]
    /\ forks_ = <<>>
    /\ map = <<>>
    /\ data = <<>>
    /\ queries = <<>>
    /\ engine = "idle"
    /\ returned = <<>>
    /\ entered = <<>>

\* The organizer is not running.
OrganizerIdle ==
    /\ headers = <<>>
    /\ indexed = <<>>
    /\ orphans = {}
    /\ invalid = {}
    /\ subscribers = {}
    /\ events = <<>>
    /\ observed = <<>>

\* connect_input is not running.
InputIdle ==
    /\ prevout = <<>>
    /\ previous_tx_out = <<>>
    /\ input_pc = "idle"
    /\ connected = <<>>
    /\ total_sigops = 0
    /\ value_in = 0
    /\ added = <<>>

OtherIdle == EngineIdle /\ OrganizerIdle /\ InputIdle

RestIdle == ChainIdle /\ ConnectIdle /\ PopulateIdle /\ OtherIdle

----------------------------------------------------------------------------
\* Bounds of the model.
MaxCapacity == 2
MaxStores == 3
MaxForks == 2
MaxQueue == 1
MaxSubscriptions == 1
MaxNewTxs == 1

\* Transaction hashes offered to the pool (tx.hash() identifies the tx).
PoolTxs == {"T1", "T2"}

\* A default-constructed / moved-from transaction and an empty std::function.
EmptyTx == "empty"
NoHandler == 0

----------------------------------------------------------------------------
\* transaction_pool::tx_find: position of the first entry with the hash,
\* 0 standing for buffer_.end().
tx_find(buf, hash) ==
    IF \E i \in 1..Len(buf) : buf[i].hash = hash
    THEN CHOOSE i \in 1..Len(buf) :
            /\ buf[i].hash = hash
            /\ \A j \in 1..(i - 1) : buf[j].hash # hash
    ELSE 0

tx_exists(buf, hash) == tx_find(buf, hash) # 0

----------------------------------------------------------------------------
\* Error codes a validate_transaction run can end with (validation_complete
\* distinguishes input_not_found / validate_inputs_failed, any other error,
\* and success).
ValidationCodes == {"success", "input_not_found", "duplicate"}

\* Error codes the organizer hands to the reorganize handler.
ForkCodes == {"success", "service_stopped", "operation_failed"}

\* Transactions of the new blocks of a fork event, in block order.
NewTxs ==
    {s \in UNION {[1..n -> PoolTxs] : n \in 0..MaxNewTxs} :
        \A i, j \in DOMAIN s : i # j => s[i] # s[j]}

\* A work item of the ordered dispatcher.
WorkItem(op, call, ec, txs) == [op |-> op, call |-> call, ec |-> ec, txs |-> txs]

\* transaction_entry_info { hash, tx, handle_confirm }.  The confirm handler
\* of a store() call is named by the number of the call.
Entry(hash, tx, handler) == [hash |-> hash, tx |-> tx, handle_confirm |-> handler]

\* The state std::move leaves an entry in: the hash (an array) is copied, the
\* transaction and the std::function are left valid but unspecified; a build
\* either empties them or leaves them intact.
MovedFrom(e) ==
    IF moved_from = "empty"
    THEN Entry(e.hash, EmptyTx, NoHandler)
    ELSE e

\* std::remove_if(buffer_.begin(), buffer_.end(), match_and_confirm): the
\* predicate runs once on every element and calls the handler of each match
\* (an empty std::function throws std::bad_function_call); elements after the
\* first match that do not match are move-assigned towards the front.  The
\* returned iterator is dropped and nothing is erased.
\* i: element examined, res: destination (0 = no match yet).
RECURSIVE remove_if(_, _, _, _, _)
remove_if(buf, i, res, hash, fired) ==
    IF i > Len(buf)
    THEN [buf |-> buf, fired |-> fired, thrown |-> FALSE]
    ELSE IF buf[i].hash = hash
    THEN IF buf[i].handle_confirm = NoHandler
         THEN [buf |-> buf, fired |-> fired, thrown |-> TRUE]
         ELSE remove_if(buf, i + 1, IF res = 0 THEN i ELSE res, hash,
                        Append(fired, buf[i].handle_confirm))
    ELSE IF res = 0
    THEN remove_if(buf, i + 1, 0, hash, fired)
    ELSE remove_if([buf EXCEPT ![res] = buf[i], ![i] = MovedFrom(buf[i])],
                   i + 1, res + 1, hash, fired)

\* transaction_pool::try_delete_tx.
try_delete_tx(stopped, buf, hash) ==
    IF stopped
    THEN [buf |-> buf, fired |-> <<>>, thrown |-> FALSE]
    ELSE remove_if(buf, 1, 0, hash, <<>>)

\* The loop of transaction_pool::delete_confirmed over the new transactions.
RECURSIVE delete_loop(_, _, _, _, _)
delete_loop(stopped, buf, txs, k, fired) ==
    IF k > Len(txs)
    THEN [buf |-> buf, fired |-> fired, thrown |-> FALSE]
    ELSE LET r == try_delete_tx(stopped, buf, txs[k])
         IN  IF r.thrown
             THEN [buf |-> r.buf, fired |-> fired \o r.fired, thrown |-> TRUE]
             ELSE delete_loop(stopped, r.buf, txs, k + 1, fired \o r.fired)

\* transaction_pool::delete_confirmed.
delete_confirmed(stopped, buf, txs) ==
    IF stopped \/ buf = <<>>
    THEN [buf |-> buf, fired |-> <<>>, thrown |-> FALSE]
    ELSE delete_loop(stopped, buf, txs, 1, <<>>)

\* The loop of transaction_pool::invalidate_pool over the entries.
RECURSIVE invalidate_loop(_, _, _)
invalidate_loop(buf, i, fired) ==
    IF i > Len(buf)
    THEN [buf |-> <<>>, fired |-> fired, thrown |-> FALSE]
    ELSE IF buf[i].handle_confirm = NoHandler
    THEN [buf |-> buf, fired |-> fired, thrown |-> TRUE]
    ELSE invalidate_loop(buf, i + 1, Append(fired, buf[i].handle_confirm))

\* invalidate_pool without the test on the pool being stopped.
invalidate_pool_running(stopped, buf) == invalidate_loop(buf, 1, <<>>)

\* transaction_pool::invalidate_pool.
invalidate_pool(stopped, buf) ==
    IF stopped
    THEN [buf |-> buf, fired |-> <<>>, thrown |-> FALSE]
    ELSE invalidate_loop(buf, 1, <<>>)

\* Mutant of push_back: a full buffer grows instead of dropping its front.
push_back_grows(buf, cap, e) == Append(buf, e)

\* circular_buffer::push_back: a full buffer drops its front element.
push_back(buf, cap, e) ==
    IF cap = 0 THEN buf
    ELSE IF Len(buf) = cap THEN Append(Tail(buf), e)
    ELSE Append(buf, e)

\* The store_transaction lambda of transaction_pool::store.
store_transaction(buf, cap, call, tx) ==
    IF Len(buf) = cap /\ Head(buf).handle_confirm = NoHandler
    THEN [buf |-> buf, fired |-> <<>>, thrown |-> TRUE]
    ELSE [buf |-> push_back(buf, cap, Entry(tx, tx, call)),
          fired |-> IF Len(buf) = cap THEN <<Head(buf).handle_confirm>> ELSE <<>>,
          thrown |-> FALSE]

\* circular_buffer::set_capacity: the last elements are removed when the
\* new capacity is below the size.
set_capacity(buf, n) ==
    IF Len(buf) > n THEN SubSeq(buf, 1, n) ELSE buf

\* validation_complete without the second look into the buffer.
validation_complete_unchecked(stopped, buf, ec, tx_hash) ==
    IF stopped THEN "service_stopped" ELSE ec

\* The code validation_complete hands to handle_validate.
validation_complete(stopped, buf, ec, tx_hash) ==
    IF stopped THEN "service_stopped"
    ELSE IF ec = "input_not_found" \/ ec = "validate_inputs_failed" THEN ec
    ELSE IF ec # "success" THEN ec
    ELSE IF tx_exists(buf, tx_hash) THEN "duplicate"
    ELSE "success"

\* Number of times handler h occurs in the sequence of handlers called.
Count(fired, h) == Cardinality({i \in DOMAIN fired : fired[i] = h})

\* The confirm handlers in fired are each called with code.
Confirm(cs, fired, code) ==
    [c \in DOMAIN cs |->
        [cs[c] EXCEPT !.confirmed = @ \o [i \in 1..Count(fired, c) |-> code]]]

\* handle_validate of call c is called with code.
Validated(cs, c, code) ==
    [cs EXCEPT ![c].validated = Append(@, code)]

----------------------------------------------------------------------------
\* The transaction pool.

\* transaction_pool::transaction_pool: stopped, empty buffer of the given capacity.
PoolConstruct ==
    /\ stopped_ = TRUE
    /\ capacity \in 1..MaxCapacity
    /\ buffer_ = <<>>
    /\ dispatch_ = <<>>
    /\ validating = {}
    /\ calls = <<>>
    /\ subscriptions = 0
    /\ forks = 0
    /\ moved_from \in {"empty", "intact"}
    /\ terminated = FALSE
    /\ replied = <<>>

\* transaction_pool::start.
Start ==
    /\ ~terminated
    /\ subscriptions < MaxSubscriptions
    /\ stopped_' = FALSE
    /\ subscriptions' = subscriptions + 1
    /\ UNCHANGED <<capacity, buffer_, dispatch_, validating, calls, forks,
                   moved_from, terminated>>

\* transaction_pool::stop.
Stop ==
    /\ ~terminated
    /\ stopped_' = TRUE
    /\ UNCHANGED <<capacity, buffer_, dispatch_, validating, calls,
                   subscriptions, forks, moved_from, terminated>>

\* transaction_pool::store followed by transaction_pool::validate: a stopped
\* pool returns at once, a running pool queues do_validate.
Store(tx) ==
    /\ ~terminated
    /\ Len(calls) < MaxStores
    /\ stopped_ \/ Len(dispatch_) < MaxQueue
    /\ calls' = Append(calls, [tx |-> tx, validated |-> <<>>, confirmed |-> <<>>])
    /\ dispatch_' = IF stopped_ THEN dispatch_
                    ELSE Append(dispatch_,
                                WorkItem("do_validate", Len(calls) + 1, "success", <<>>))
    /\ UNCHANGED <<stopped_, capacity, buffer_, validating, subscriptions,
                   forks, moved_from, terminated>>

\* The wrap_validate lambda of transaction_pool::store called with ec for
\* call c: store_transaction on success, then the caller's handle_validate.
WrapValidate(c, ec) ==
    LET r == IF ec = "success"
             THEN store_transaction(buffer_, capacity, c, calls[c].tx)
             ELSE [buf |-> buffer_, fired |-> <<>>, thrown |-> FALSE]
    IN  /\ buffer_' = r.buf
        /\ terminated' = r.thrown
        /\ calls' = IF r.thrown THEN calls
                    ELSE Validated(Confirm(calls, r.fired, "pool_filled"), c, ec)

\* transaction_pool::do_validate, run by the ordered dispatcher.
DoValidate ==
    /\ ~terminated
    /\ dispatch_ # <<>>
    /\ Head(dispatch_).op = "do_validate"
    /\ dispatch_' = Tail(dispatch_)
    /\ IF stopped_
       THEN /\ WrapValidate(Head(dispatch_).call, "service_stopped")
            /\ UNCHANGED validating
       ELSE /\ validating' = validating \cup {Head(dispatch_).call}
            /\ UNCHANGED <<buffer_, calls, terminated>>
    /\ UNCHANGED <<stopped_, capacity, subscriptions, forks, moved_from>>

\* validate_transaction finishes with ec and posts validation_complete
\* through ordered_delegate.
ValidateFinish(c, ec) ==
    /\ ~terminated
    /\ c \in validating
    /\ Len(dispatch_) < MaxQueue
    /\ validating' = validating \ {c}
    /\ dispatch_' = Append(dispatch_, WorkItem("validation_complete", c, ec, <<>>))
    /\ UNCHANGED <<stopped_, capacity, buffer_, calls, subscriptions, forks,
                   moved_from, terminated>>

\* transaction_pool::validation_complete, run by the ordered dispatcher.
ValidationComplete ==
    /\ ~terminated
    /\ dispatch_ # <<>>
    /\ Head(dispatch_).op = "validation_complete"
    /\ dispatch_' = Tail(dispatch_)
    /\ LET c == Head(dispatch_).call
       IN  WrapValidate(c, validation_complete(stopped_, buffer_,
                                               Head(dispatch_).ec, calls[c].tx))
    /\ UNCHANGED <<stopped_, capacity, validating, subscriptions, forks, moved_from>>

\* reorganize without the subscribe_reorganize that ends it.
ReorganizeOnce(ec, new_txs, replaced_empty) ==
    /\ ~terminated
    /\ subscriptions > 0
    /\ forks < MaxForks
    /\ forks' = forks + 1
    /\ subscriptions' = 0
    /\ stopped_' = (stopped_ \/ ec # "success")
    /\ dispatch_' = IF ec # "success" THEN dispatch_
                    ELSE Append(dispatch_,
                                IF replaced_empty
                                THEN WorkItem("delete_confirmed", 0, "success", new_txs)
                                ELSE WorkItem("invalidate_pool", 0, "success", <<>>))
    /\ ec = "success" => Len(dispatch_) < MaxQueue
    /\ UNCHANGED <<capacity, buffer_, validating, calls, moved_from, terminated>>

\* The organizer notifies every subscribed reorganize handler of a fork
\* event; transaction_pool::reorganize stops the pool on an error code, else
\* queues delete_confirmed or invalidate_pool and subscribes again.
Reorganize(ec, new_txs, replaced_empty) ==
    /\ ~terminated
    /\ subscriptions > 0
    /\ forks < MaxForks
    /\ forks' = forks + 1
    /\ IF ec # "success"
       THEN /\ stopped_' = TRUE
            /\ subscriptions' = 0
            /\ UNCHANGED dispatch_
       ELSE /\ Len(dispatch_) + subscriptions <= MaxQueue
            /\ dispatch_' = dispatch_ \o
                  [i \in 1..subscriptions |->
                      IF replaced_empty
                      THEN WorkItem("delete_confirmed", 0, "success", new_txs)
                      ELSE WorkItem("invalidate_pool", 0, "success", <<>>)]
            /\ UNCHANGED <<stopped_, subscriptions>>
    /\ UNCHANGED <<capacity, buffer_, validating, calls, moved_from, terminated>>

\* transaction_pool::delete_confirmed, run by the ordered dispatcher.
DeleteConfirmed ==
    /\ ~terminated
    /\ dispatch_ # <<>>
    /\ Head(dispatch_).op = "delete_confirmed"
    /\ dispatch_' = Tail(dispatch_)
    /\ LET r == delete_confirmed(stopped_, buffer_, Head(dispatch_).txs)
       IN  /\ buffer_' = r.buf
           /\ calls' = Confirm(calls, r.fired, "success")
           /\ terminated' = r.thrown
    /\ UNCHANGED <<stopped_, capacity, validating, subscriptions, forks, moved_from>>

\* transaction_pool::invalidate_pool, run by the ordered dispatcher.
InvalidatePool ==
    /\ ~terminated
    /\ dispatch_ # <<>>
    /\ Head(dispatch_).op = "invalidate_pool"
    /\ dispatch_' = Tail(dispatch_)
    /\ LET r == invalidate_pool(stopped_, buffer_)
       IN  /\ buffer_' = r.buf
           /\ calls' = Confirm(calls, r.fired, "blockchain_reorganized")
           /\ terminated' = r.thrown
    /\ UNCHANGED <<stopped_, capacity, validating, subscriptions, forks, moved_from>>

\* transaction_pool::set_capacity.
SetCapacity(n) ==
    /\ ~terminated
    /\ n # capacity
    /\ capacity' = n
    /\ buffer_' = set_capacity(buffer_, n)
    /\ UNCHANGED <<stopped_, dispatch_, validating, calls, subscriptions, forks,
                   moved_from, terminated>>

\* The validator is not running next to the pool.
CheckIdle ==
    /\ block = [header |-> [bits |-> 0, hash |-> 0, timestamp |-> 0, merkle |-> <<>>],
                transactions |-> <<>>]
    /\ now = 0
    /\ stop_callback_ = FALSE
    /\ pc = "idle"
    /\ it = 0
    /\ result = <<>>

PoolInit == PoolConstruct /\ CheckIdle /\ RestIdle

\* A step of the pool that calls no fetch or exists handler, next to an
\* idle validator.
NoReply == replied' = <<>> /\ UNCHANGED <<checkVars, restVars>>

PoolNext ==
    \/ Start /\ NoReply
    \/ Stop /\ NoReply
    \/ (\E tx \in PoolTxs : Store(tx)) /\ NoReply
    \/ DoValidate /\ NoReply
    \/ (\E c \in validating, ec \in ValidationCodes : ValidateFinish(c, ec))
          /\ NoReply
    \/ ValidationComplete /\ NoReply
    \/ (\E ec \in ForkCodes, txs \in NewTxs, e \in BOOLEAN : Reorganize(ec, txs, e))
          /\ NoReply
    \/ DeleteConfirmed /\ NoReply
    \/ InvalidatePool /\ NoReply
    \/ (\E n \in 1..MaxCapacity : SetCapacity(n)) /\ NoReply

PoolSpec == PoolInit /\ [][PoolNext]_vars

----------------------------------------------------------------------------
\* transaction_pool::fetch and transaction_pool::exists.

\* What fetch hands to handle_fetch: service_stopped and an empty
\* transaction on a stopped pool, else what the tx_fetcher lambda finds.
tx_fetcher(stopped, buf, hash) ==
    IF stopped
    THEN [op |-> "fetch", ec |-> "service_stopped", tx |-> EmptyTx, found |-> FALSE]
    ELSE IF tx_find(buf, hash) = 0
    THEN [op |-> "fetch", ec |-> "not_found", tx |-> EmptyTx, found |-> FALSE]
    ELSE [op |-> "fetch", ec |-> "success", tx |-> buf[tx_find(buf, hash)].tx,
          found |-> FALSE]

\* What exists hands to handle_exists.
get_existence(stopped, buf, hash) ==
    IF stopped
    THEN [op |-> "exists", ec |-> "service_stopped", tx |-> EmptyTx, found |-> FALSE]
    ELSE [op |-> "exists", ec |-> "success", tx |-> EmptyTx,
          found |-> tx_exists(buf, hash)]

\* transaction_pool::fetch and transaction_pool::exists: a stopped pool
\* calls the handler at once, a running pool queues the lambda.
Query(op, hash) ==
    /\ ~terminated
    /\ stopped_ \/ Len(dispatch_) < MaxQueue
    /\ IF stopped_
       THEN /\ replied' = IF op = "fetch"
                          THEN tx_fetcher(TRUE, buffer_, hash)
                          ELSE get_existence(TRUE, buffer_, hash)
            /\ UNCHANGED dispatch_
       ELSE /\ dispatch_' = Append(dispatch_, WorkItem(op, 0, "success", <<hash>>))
            /\ replied' = <<>>
    /\ UNCHANGED <<stopped_, capacity, buffer_, validating, calls, subscriptions,
                   forks, moved_from, terminated>>

\* The tx_fetcher or get_existence lambda, run by the ordered dispatcher:
\* the pool was running when it was queued and is not tested again.
Answer ==
    /\ ~terminated
    /\ dispatch_ # <<>>
    /\ Head(dispatch_).op \in {"fetch", "exists"}
    /\ dispatch_' = Tail(dispatch_)
    /\ replied' = IF Head(dispatch_).op = "fetch"
                  THEN tx_fetcher(FALSE, buffer_, Head(dispatch_).txs[1])
                  ELSE get_existence(FALSE, buffer_, Head(dispatch_).txs[1])
    /\ UNCHANGED <<stopped_, capacity, buffer_, validating, calls, subscriptions,
                   forks, moved_from, terminated>>

\* The pool treats every hash alike: the queries ask for one of them.
ServiceNext ==
    \/ PoolNext
    \/ (\E op \in {"fetch", "exists"} : Query(op, "T1"))
          /\ UNCHANGED <<checkVars, restVars>>
    \/ Answer /\ UNCHANGED <<checkVars, restVars>>

ServiceSpec == PoolInit /\ [][ServiceNext]_vars

----------------------------------------------------------------------------
\* validate_block::check_block.

\* Bound on the number of transactions of the block under validation.
MaxBlockTxs == 4

max_block_size == 1000000
max_block_script_sig_operations == max_block_size \div 50

\* The transactions a block is built from.  A transaction is identified by
\* its name; the attributes check_block reads are given per transaction.
BlockTxs == {"cb", "a", "b", "bad", "sig", "big"}

\* chain::transaction::is_coinbase.
is_coinbase(tx) == tx = "cb"

\* chain::transaction::hash: an injective image of the transaction.
hash(tx) == <<tx>>

\* Serialized size of a transaction in bytes.
tx_serialized_size(tx) ==
    CASE tx = "big" -> 999819
      [] tx = "sig" -> 1100
      [] OTHER -> 100

\* Signature operations in the scripts of a transaction.
tx_operations(tx) ==
    CASE tx = "sig" -> [checksig |-> 0, checkmultisig |-> 1000]
      [] tx \in {"a", "b"} -> [checksig |-> 1, checkmultisig |-> 0]
      [] OTHER -> [checksig |-> 0, checkmultisig |-> 0]

\* validate_transaction::check_transaction, the context free checks of one
\* transaction.
check_transaction(tx) ==
    IF tx = "bad" THEN "empty_transaction" ELSE "success"

RECURSIVE Sum(_, _)
Sum(f, n) == IF n = 0 THEN 0 ELSE f[n] + Sum(f, n - 1)

\* chain::block::serialized_size: the 80 byte header, the transaction count
\* (one byte below 253 transactions) and the transactions.
serialized_size(b) ==
    80 + 1 + Sum([i \in DOMAIN b.transactions |->
                    tx_serialized_size(b.transactions[i])], Len(b.transactions))

\* count_script_sigops of the scripts of a transaction; the legacy count is
\* not accurate, so every checkmultisig counts 20.
count_script_sigops(operations, accurate) ==
    operations.checksig + 20 * operations.checkmultisig

\* validate_block::legacy_sigops_count(tx).
legacy_sigops_count_tx(tx) == count_script_sigops(tx_operations(tx), FALSE)

\* validate_block::legacy_sigops_count(txs).
legacy_sigops_count(txs) ==
    Sum([i \in DOMAIN txs |-> legacy_sigops_count_tx(txs[i])], Len(txs))

\* One level of the merkle tree: an odd level repeats its last hash, then
\* neighbours are hashed in pairs.
merkle_level(hashes) ==
    LET even == IF Len(hashes) % 2 = 1
                THEN Append(hashes, hashes[Len(hashes)])
                ELSE hashes
    IN  [i \in 1..(Len(even) \div 2) |-> <<even[2 * i - 1], even[2 * i]>>]

\* chain::block::generate_merkle_root; the null hash for no transactions.
RECURSIVE merkle_root(_)
merkle_root(hashes) ==
    IF hashes = <<>> THEN <<>>
    ELSE IF Len(hashes) = 1 THEN hashes[1]
    ELSE merkle_root(merkle_level(hashes))

generate_merkle_root(txs) == merkle_root([i \in DOMAIN txs |-> hash(txs[i])])

\* hash_number::set_compact.  bits = exponent (8 bits), sign (1 bit),
\* mantissa (23 bits); the target is mantissa * 256^(exponent - 3).  Targets
\* and header hashes are counted in units of 256^(28 - 3), which the
\* exponents used here (28, 29) keep integral.
compact_exponent(bits) == bits \div (2 ^ 24)
compact_mantissa(bits) == bits % (2 ^ 23)
compact_negative(bits) ==
    (bits \div (2 ^ 23)) % 2 = 1 /\ compact_mantissa(bits) # 0
compact_target(bits) ==
    compact_mantissa(bits) * (256 ^ (compact_exponent(bits) - 28))

\* max_target(): compact 0x1d00ffff.
max_target == 65535 * 256

\* validate_block::is_valid_proof_of_work.
is_valid_proof_of_work(header_hash, bits) ==
    /\ ~compact_negative(bits)
    /\ ~(compact_target(bits) <= 0 \/ compact_target(bits) > max_target)
    /\ header_hash <= compact_target(bits)

\* validate_block::is_valid_time_stamp: at most two hours ahead of the clock.
is_valid_time_stamp(timestamp, current_time) ==
    timestamp <= current_time + 2 * 60 * 60

\* std::unique: drops every element equal to its predecessor.
RECURSIVE unique(_)
unique(hashes) ==
    IF Len(hashes) <= 1 THEN hashes
    ELSE IF hashes[1] = hashes[2] THEN unique(Tail(hashes))
    ELSE <<hashes[1]>> \o unique(Tail(hashes))

\* validate_block::is_distinct_tx_set.
is_distinct_tx_set(txs) ==
    LET hashes == [i \in DOMAIN txs |-> hash(txs[i])]
    IN  Len(unique(hashes)) = Len(hashes)

\* Mutant of exceeds_size_limits: the serialized size is not tested.
exceeds_size_limits_count_only(b) ==
    \/ b.transactions = <<>>
    \/ Len(b.transactions) > max_block_size

\* The size test opening check_block.
exceeds_size_limits(b) ==
    \/ b.transactions = <<>>
    \/ Len(b.transactions) > max_block_size
    \/ serialized_size(b) > max_block_size

\* The test on the first transaction.
first_not_coinbase(b) == ~is_coinbase(b.transactions[1])

\* The test closing check_block.
merkle_mismatch(b) == b.header.merkle # generate_merkle_root(b.transactions)

\* Blocks handed to the validator.
Clock == {1446336000}
Headers ==
    { [bits |-> 486604799, hash |-> max_target],        \* 0x1d00ffff, hash = target
      [bits |-> 486604799, hash |-> max_target + 1],    \* 0x1d00ffff, hash above target
      [bits |-> 486604800, hash |-> 0],                 \* 0x1d010000, above max_target
      [bits |-> 486539264, hash |-> 0],                 \* 0x1d000000, zero target
      [bits |-> 494993407, hash |-> 0] }                \* 0x1d80ffff, negative
TxLists == UNION {[1..n -> BlockTxs] : n \in 0..MaxBlockTxs}
Blocks ==
    { [header |-> [bits |-> p[1].bits, hash |-> p[1].hash, timestamp |-> p[2],
                   merkle |-> IF p[4] THEN generate_merkle_root(p[3])
                              ELSE generate_merkle_root(SubSeq(p[3], 1, Len(p[3]) - 1))],
       transactions |-> p[3]] :
      p \in Headers \X {t + 2 * 60 * 60 + d : t \in Clock, d \in {0, 1}}
            \X TxLists \X BOOLEAN }

\* validate_block::validate_block followed by the call of check_block.
CheckConstruct ==
    /\ block \in Blocks
    /\ now \in Clock
    /\ stop_callback_ \in BOOLEAN
    /\ pc = "start"
    /\ it = 0
    /\ result = <<>>

\* complete(ec); return.
Complete(ec) ==
    /\ result' = Append(result, ec)
    /\ pc' = "done"
    /\ UNCHANGED it

\* RETURN_IF_STOPPED(complete) followed by a test failing with ec, else on to
\* the position next.
Step(failed, ec, next, index) ==
    IF stop_callback_ THEN Complete("service_stopped")
    ELSE IF failed THEN Complete(ec)
    ELSE /\ pc' = next
         /\ it' = index
         /\ UNCHANGED result

\* The caller's stop predicate turns true.
StopRequested ==
    /\ pc \notin {"done", "idle"}
    /\ ~stop_callback_
    /\ stop_callback_' = TRUE
    /\ UNCHANGED <<block, now, pc, it, result>>

\* check_block up to the first RETURN_IF_STOPPED: size limits, proof of work.
CheckSizeAndWork ==
    /\ pc = "start"
    /\ IF exceeds_size_limits(block) THEN Complete("size_limits")
       ELSE IF ~is_valid_proof_of_work(block.header.hash, block.header.bits)
       THEN Complete("proof_of_work")
       ELSE pc' = "timestamp" /\ UNCHANGED <<it, result>>
    /\ UNCHANGED <<block, now, stop_callback_>>

CheckTimestamp ==
    /\ pc = "timestamp"
    /\ Step(~is_valid_time_stamp(block.header.timestamp, now),
            "futuristic_timestamp", "first_coinbase", 0)
    /\ UNCHANGED <<block, now, stop_callback_>>

CheckFirstCoinbase ==
    /\ pc = "first_coinbase"
    /\ Step(first_not_coinbase(block), "first_not_coinbase", "extra_coinbases", 2)
    /\ UNCHANGED <<block, now, stop_callback_>>

\* One turn of the loop over transactions 2..n, or its exit.
CheckExtraCoinbases ==
    /\ pc = "extra_coinbases"
    /\ IF it > Len(block.transactions)
       THEN pc' = "check_transaction" /\ it' = 1 /\ UNCHANGED result
       ELSE Step(is_coinbase(block.transactions[it]), "extra_coinbases",
                 "extra_coinbases", it + 1)
    /\ UNCHANGED <<block, now, stop_callback_>>

\* One turn of the loop over all transactions, or its exit.
CheckTransactions ==
    /\ pc = "check_transaction"
    /\ IF it > Len(block.transactions)
       THEN pc' = "distinct" /\ it' = 0 /\ UNCHANGED result
       ELSE Step(check_transaction(block.transactions[it]) # "success",
                 check_transaction(block.transactions[it]),
                 "check_transaction", it + 1)
    /\ UNCHANGED <<block, now, stop_callback_>>

CheckDistinct ==
    /\ pc = "distinct"
    /\ Step(~is_distinct_tx_set(block.transactions), "duplicate", "sigops", 0)
    /\ UNCHANGED <<block, now, stop_callback_>>

CheckSigops ==
    /\ pc = "sigops"
    /\ Step(legacy_sigops_count(block.transactions) > max_block_script_sig_operations,
            "too_many_sigs", "merkle", 0)
    /\ UNCHANGED <<block, now, stop_callback_>>

CheckMerkle ==
    /\ pc = "merkle"
    /\ IF stop_callback_ THEN Complete("service_stopped")
       ELSE IF merkle_mismatch(block) THEN Complete("merkle_mismatch")
       ELSE Complete("success")
    /\ UNCHANGED <<block, now, stop_callback_>>

\* The pool is not running next to the validator.
PoolIdle ==
    /\ stopped_ = TRUE
    /\ capacity = 1
    /\ buffer_ = <<>>
    /\ dispatch_ = <<>>
    /\ validating = {}
    /\ calls = <<>>
    /\ subscriptions = 0
    /\ forks = 0
    /\ moved_from = "empty"
    /\ terminated = FALSE
    /\ replied = <<>>

CheckInit == CheckConstruct /\ PoolIdle /\ RestIdle

CheckNext ==
    \/ StopRequested /\ UNCHANGED <<poolVars, restVars>>
    \/ CheckSizeAndWork /\ UNCHANGED <<poolVars, restVars>>
    \/ CheckTimestamp /\ UNCHANGED <<poolVars, restVars>>
    \/ CheckFirstCoinbase /\ UNCHANGED <<poolVars, restVars>>
    \/ CheckExtraCoinbases /\ UNCHANGED <<poolVars, restVars>>
    \/ CheckTransactions /\ UNCHANGED <<poolVars, restVars>>
    \/ CheckDistinct /\ UNCHANGED <<poolVars, restVars>>
    \/ CheckSigops /\ UNCHANGED <<poolVars, restVars>>
    \/ CheckMerkle /\ UNCHANGED <<poolVars, restVars>>

CheckSpec == CheckInit /\ [][CheckNext]_vars

----------------------------------------------------------------------------
\* Claims about check_block.

\* Two transactions of the list have the same hash, adjacent or not.
HasDuplicateHashes(txs) ==
    \E i, j \in DOMAIN txs : i < j /\ hash(txs[i]) = hash(txs[j])

\* The block passes tests 1 to 6 of check_block.
PassesTests1To6(b) ==
    /\ ~exceeds_size_limits(b)
    /\ is_valid_proof_of_work(b.header.hash, b.header.bits)
    /\ is_valid_time_stamp(b.header.timestamp, now)
    /\ ~first_not_coinbase(b)
    /\ \A i \in 2..Len(b.transactions) : ~is_coinbase(b.transactions[i])
    /\ \A i \in DOMAIN b.transactions : check_transaction(b.transactions[i]) = "success"

\* The error of the first failing test in the order of the specification,
\* test 7 failing when the hashes are not pairwise distinct.
FirstFailure(b, distinct) ==
    LET txs == b.transactions
        failing == {i \in DOMAIN txs : check_transaction(txs[i]) # "success"}
    IN  IF exceeds_size_limits(b) THEN "size_limits"
        ELSE IF ~is_valid_proof_of_work(b.header.hash, b.header.bits) THEN "proof_of_work"
        ELSE IF ~is_valid_time_stamp(b.header.timestamp, now) THEN "futuristic_timestamp"
        ELSE IF first_not_coinbase(b) THEN "first_not_coinbase"
        ELSE IF \E i \in 2..Len(txs) : is_coinbase(txs[i]) THEN "extra_coinbases"
        ELSE IF failing # {}
        THEN check_transaction(txs[CHOOSE i \in failing : \A j \in failing : i <= j])
        ELSE IF ~distinct THEN "duplicate"
        ELSE IF legacy_sigops_count(txs) > max_block_script_sig_operations
        THEN "too_many_sigs"
        ELSE IF merkle_mismatch(b) THEN "merkle_mismatch"
        ELSE "success"

\* C8: with stopped() false throughout, check_block completes with the error
\* of the first failing test in the order size limits, proof of work,
\* futuristic timestamp, first-not-coinbase, extra coinbases, transaction
\* checks, duplicate transaction hashes, too many sigops, merkle mismatch,
\* and with success only when no test fails.
C8_FirstFailureWins ==
    (pc = "done" /\ ~stop_callback_) =>
        result = <<FirstFailure(block, ~HasDuplicateHashes(block.transactions))>>

\* The same order with test 7 as is_distinct_tx_set computes it: this holds,
\* so C8 fails through the duplicate test of C9 alone.
C8_OrderWithAdjacentDuplicates ==
    (pc = "done" /\ ~stop_callback_) =>
        result = <<FirstFailure(block, is_distinct_tx_set(block.transactions))>>

\* C9: a block that passes tests 1 to 6 and holds two transactions with the
\* same hash, adjacent or not, completes with duplicate (never with success).
C9_DuplicateRejected ==
    (/\ pc = "done"
     /\ ~stop_callback_
     /\ PassesTests1To6(block)
     /\ HasDuplicateHashes(block.transactions)) => result = <<"duplicate">>

\* Number of coinbase transactions of a list.
CoinbaseCount(txs) == Cardinality({i \in DOMAIN txs : is_coinbase(txs[i])})

\* C10: when check_block completes with success, the header's merkle root is
\* the merkle root of the transactions, exactly one transaction is a coinbase
\* and it is the first, and the serialized size is at most 1,000,000.
C10_SuccessImplies ==
    (pc = "done" /\ result = <<"success">>) =>
        /\ block.header.merkle = generate_merkle_root(block.transactions)
        /\ CoinbaseCount(block.transactions) = 1
        /\ is_coinbase(block.transactions[1])
        /\ serialized_size(block) <= 1000000

\* C10 witness: check_block succeeded on a block of exactly 1,000,000 bytes.
C10_Witness ==
    /\ pc = "done"
    /\ result = <<"success">>
    /\ serialized_size(block) = 1000000
    /\ Len(block.transactions) > 1

----------------------------------------------------------------------------
\* Claims about the transaction pool.

\* The step runs the work item op at the head of the ordered dispatcher.
Ran(op) ==
    /\ dispatch_ # <<>>
    /\ Head(dispatch_).op = op
    /\ dispatch_' = Tail(dispatch_)

\* Over the step, the confirm handler of call c is called once more, with code.
ConfirmedOnceWith(c, code) ==
    calls'[c].confirmed = Append(calls[c].confirmed, code)

Hashes(buf) == {buf[i].hash : i \in DOMAIN buf}
Range(seq) == {seq[i] : i \in DOMAIN seq}

\* C1: when delete_confirmed runs on a running pool for new blocks that
\* contain a transaction T of the pool, T is no longer in the pool afterwards
\* (exists false, fetch not found), the size has decreased by the entries
\* confirmed, and T's confirm handler was called with success.
C1_ConfirmedRemoved ==
    [][(Ran("delete_confirmed") /\ ~stopped_) =>
        LET confirmed == Range(Head(dispatch_).txs) \cap Hashes(buffer_)
        IN  /\ \A T \in confirmed :
                 /\ ~tx_exists(buffer_', T)
                 /\ tx_find(buffer_', T) = 0
                 /\ \E c \in DOMAIN calls :
                       calls[c].tx = T /\ ConfirmedOnceWith(c, "success")
            /\ Len(buffer_') =
                 Len(buffer_) - Cardinality({i \in DOMAIN buffer_ :
                                               buffer_[i].hash \in confirmed})]_vars

\* C2: the entries of the buffer have pairwise distinct hashes.
C2_DistinctHashes ==
    \A i, j \in DOMAIN buffer_ : i # j => buffer_[i].hash # buffer_[j].hash

\* C3: the confirm handler of a stored transaction is called at most once.
C3_ConfirmAtMostOnce ==
    \A c \in DOMAIN calls : Len(calls[c].confirmed) <= 1

\* C4: when invalidate_pool runs on a running pool, the pool is empty
\* afterwards and the confirm handler of every entry was called exactly once,
\* with blockchain_reorganized.
C4_ReorgEmptiesPool ==
    [][(Ran("invalidate_pool") /\ ~stopped_) =>
        /\ buffer_' = <<>>
        /\ \A i \in DOMAIN buffer_ :
              /\ buffer_[i].handle_confirm \in DOMAIN calls
              /\ ConfirmedOnceWith(buffer_[i].handle_confirm,
                                   "blockchain_reorganized")]_vars

\* C5 as stated: the capacity never changes after construction and the size
\* never exceeds it.
C5_CapacityFixed ==
    [][capacity' = capacity /\ Len(buffer_') <= capacity']_vars

\* C5 as amended: the capacity changes only through set_capacity(n), which
\* sets it to n, and the size never exceeds the capacity.
C5_CapacityOnlySetCapacity ==
    [][/\ capacity' # capacity => \E n \in 1..MaxCapacity : SetCapacity(n)
       /\ Len(buffer_') <= capacity']_vars

\* C5 witness: set_capacity has shrunk a full buffer.
C5_Witness ==
    /\ capacity < MaxCapacity
    /\ Len(buffer_) = capacity
    /\ Len(calls) > capacity
    /\ \A c \in DOMAIN calls : calls[c].confirmed = <<>>
    /\ \A c \in DOMAIN calls : calls[c].validated = <<"success">>

\* C6: when a store validates successfully on a full pool (capacity >= 1),
\* the front entry's confirm handler is called with pool_filled and the entry
\* is no longer in the pool, the new transaction is in the pool, the size is
\* unchanged and handle_validate receives success.
C6_FullPoolEvictsOldest ==
    [][(/\ Ran("validation_complete")
        /\ validation_complete(stopped_, buffer_, Head(dispatch_).ec,
                               calls[Head(dispatch_).call].tx) = "success"
        /\ capacity >= 1
        /\ Len(buffer_) = capacity) =>
        LET c == Head(dispatch_).call
            oldest == Head(buffer_)
        IN  /\ oldest.handle_confirm \in DOMAIN calls
            /\ ConfirmedOnceWith(oldest.handle_confirm, "pool_filled")
            /\ ~tx_exists(buffer_', oldest.hash)
            /\ tx_exists(buffer_', calls[c].tx)
            /\ Len(buffer_') = Len(buffer_)
            /\ calls'[c].validated = Append(calls[c].validated, "success")]_vars

\* A store call has nothing left to run: no work item and no validation.
Settled(c) ==
    /\ c \notin validating
    /\ \A i \in DOMAIN dispatch_ : dispatch_[i].call # c

\* C7: handle_validate of every store call is called exactly once: never
\* twice, and once when nothing of the call is left to run.
C7_ValidateExactlyOnce ==
    \A c \in DOMAIN calls :
        /\ Len(calls[c].validated) <= 1
        /\ Settled(c) => Len(calls[c].validated) = 1

----------------------------------------------------------------------------
\* hash_number: a 256-bit unsigned number, held as its bytes, least
\* significant byte first, without leading zero bytes (zero is <<>>).

RECURSIVE number_bytes(_)
number_bytes(n) == IF n = 0 THEN <<>> ELSE <<n % 256>> \o number_bytes(n \div 256)

RECURSIVE number_value(_)
number_value(d) == IF d = <<>> THEN 0 ELSE d[1] + 256 * number_value(Tail(d))

RECURSIVE trim(_)
trim(d) ==
    IF d # <<>> /\ d[Len(d)] = 0 THEN trim(SubSeq(d, 1, Len(d) - 1)) ELSE d

\* Arithmetic is modulo 2^256: bytes above the 32nd are dropped.
uint256(d) == trim(SubSeq(d, 1, IF Len(d) < 32 THEN Len(d) ELSE 32))

\* hash_number::set_compact: mantissa (23 bits) shifted by the size byte.
set_compact(bits) ==
    LET size == bits \div 16777216
        word == bits % 8388608
    IN  IF size <= 3 THEN number_bytes(word \div (256 ^ (3 - size)))
        ELSE uint256([i \in 1..(size - 3) |-> 0] \o number_bytes(word))

\* hash_number::compact: the three most significant bytes and the size, one
\* byte further when the mantissa would read as negative.
compact(d) ==
    LET size == Len(d)
        word == IF size <= 3 THEN number_value(d) * (256 ^ (3 - size))
                ELSE number_value(SubSeq(d, size - 2, size))
    IN  IF word >= 8388608 THEN (size + 1) * 16777216 + word \div 256
        ELSE size * 16777216 + word

RECURSIVE times(_, _, _)
times(d, value, carry) ==
    IF d = <<>> THEN number_bytes(carry)
    ELSE LET cur == d[1] * value + carry
         IN  <<cur % 256>> \o times(Tail(d), value, cur \div 256)

\* hash_number::operator*=(uint32_t).
multiply(d, value) == uint256(times(d, value, 0))

\* Long division from the most significant byte; the quotient's bytes come out
\* most significant first.
RECURSIVE divided(_, _, _)
divided(d, value, remainder) ==
    IF d = <<>> THEN <<>>
    ELSE LET cur == remainder * 256 + d[Len(d)]
         IN  <<cur \div value>> \o divided(SubSeq(d, 1, Len(d) - 1), value, cur % value)

\* hash_number::operator/=(uint32_t).
divide(d, value) ==
    LET q == divided(d, value, 0)
    IN  trim([i \in 1..Len(q) |-> q[Len(q) + 1 - i]])

\* hash_number::operator>.
RECURSIVE greater(_, _)
greater(a, b) ==
    IF Len(a) # Len(b) THEN Len(a) > Len(b)
    ELSE IF a = <<>> THEN FALSE
    ELSE IF a[Len(a)] # b[Len(b)] THEN a[Len(a)] > b[Len(b)]
    ELSE greater(SubSeq(a, 1, Len(a) - 1), SubSeq(b, 1, Len(b) - 1))

----------------------------------------------------------------------------
\* validate_block::work_required (mainnet build).

max_work_bits == 486604799                  \* 0x1d00ffff
max_target_number == set_compact(max_work_bits)
target_timespan == 2 * 7 * 24 * 60 * 60
target_spacing == 10 * 60
readjustment_interval == target_timespan \div target_spacing

range_constrain(value, minimum, maximum) ==
    IF value < minimum THEN minimum
    ELSE IF value > maximum THEN maximum
    ELSE value

\* work_required without range_constrain on the timespan.
work_required_unclamped(height, previous_block_bits, actual_timespan) ==
    IF height = 0 THEN max_work_bits
    ELSE IF height % readjustment_interval # 0 THEN previous_block_bits
    ELSE LET retarget == divide(multiply(set_compact(previous_block_bits),
                                         actual_timespan), target_timespan)
         IN  compact(IF greater(retarget, max_target_number)
                     THEN max_target_number ELSE retarget)

work_required(height, previous_block_bits, actual_timespan) ==
    IF height = 0 THEN max_work_bits
    ELSE IF height % readjustment_interval # 0 THEN previous_block_bits
    ELSE LET constrained == range_constrain(actual_timespan,
                                target_timespan \div 4, target_timespan * 4)
             retarget == divide(multiply(set_compact(previous_block_bits),
                                         constrained), target_timespan)
         IN  compact(IF greater(retarget, max_target_number)
                     THEN max_target_number ELSE retarget)

----------------------------------------------------------------------------
\* validate_block::accept_block.

MaxAcceptTxs == 2
max_version1_height == 237370
MedianTimePast == 1446336000

\* Transactions of the blocks handed to accept_block: lock time 0, a lock on
\* a height, a lock on a time, and a time lock with final input sequences.
AcceptTxs == {"cb", "lockh", "lockt", "seq"}

tx_locktime(tx) ==
    CASE tx = "lockh" -> max_version1_height
      [] tx \in {"lockt", "seq"} -> MedianTimePast + 1
      [] OTHER -> 0

tx_inputs_final(tx) == tx = "seq"

\* chain::transaction::is_final.
is_final(tx, block_height, block_time) ==
    \/ tx_locktime(tx) = 0
    \/ tx_locktime(tx) < (IF tx_locktime(tx) < 500000000 THEN block_height
                          ELSE block_time)
    \/ tx_inputs_final(tx)

\* checkpoint::validate: a checkpoint at this height must carry this hash.
checkpoint_validate(block_hash, height, checkpoints) ==
    \A c \in checkpoints : c[1] = height => c[2] = block_hash

\* script_number(height).data(): little-endian bytes, with a zero byte added
\* when the top bit of the last byte is set.
script_number_data(height) ==
    LET d == number_bytes(height)
    IN  IF d # <<>> /\ d[Len(d)] >= 128 THEN Append(d, 0) ELSE d

\* The script holding one push of the expected number, serialized.
expect_coinbase(height) ==
    <<Len(script_number_data(height))>> \o script_number_data(height)

\* b.coinbase_script is the raw script of the first input of the first
\* transaction, which every transaction of the model has.
is_valid_coinbase_height(height, b) ==
    IF height < max_version1_height THEN TRUE
    ELSE IF b.header.version < 2 \/ b.transactions = <<>> THEN FALSE
    ELSE LET expect == expect_coinbase(height)
         IN  /\ Len(expect) <= Len(b.coinbase_script)
             /\ SubSeq(b.coinbase_script, 1, Len(expect)) = expect

\* Heights, chain answers and blocks handed to accept_block.
AcceptHeights ==
    {0, max_version1_height - 1, max_version1_height, max_version1_height + 1,
     118 * readjustment_interval}
ChainAnswers(height) ==
    LET previous_bits == {max_work_bits, 453248203}     \* 0x1d00ffff, 0x1b0404cb
        timespans ==
            {target_timespan \div 4 - 1, target_timespan \div 4, 907200,
             target_timespan, target_timespan * 4, target_timespan * 4 + 1}
    IN  { [previous_block_bits |-> p, actual_timespan |-> a,
           median_time_past |-> MedianTimePast] :
          p \in previous_bits,
          a \in IF height # 0 /\ height % readjustment_interval = 0
                THEN timespans ELSE {target_timespan} }
AcceptBlocks(height, answers) ==
    LET scripts ==
            { Append(expect_coinbase(height), 81),
              expect_coinbase(height + 1),
              SubSeq(expect_coinbase(height), 1, Len(expect_coinbase(height)) - 1) }
        lists == UNION {[1..n -> AcceptTxs] : n \in 0..MaxAcceptTxs}
    IN  { [header |-> [bits |-> IF p[1]
                                THEN work_required(height,
                                                   answers.previous_block_bits,
                                                   answers.actual_timespan)
                                ELSE max_work_bits - 1,
                       hash |-> 7, timestamp |-> p[2], version |-> p[3]],
           transactions |-> p[4],
           coinbase_script |-> p[5]] :
          p \in BOOLEAN \X {MedianTimePast + d : d \in 0..2} \X {1, 2}
                \X lists \X scripts }

\* validate_block::validate_block followed by the call of accept_block.
AcceptConstruct ==
    /\ height_ \in AcceptHeights
    /\ checkpoints_ \in {{}, {<<max_version1_height, 7>>},
                         {<<max_version1_height, 5>>}}
    /\ chain \in ChainAnswers(height_)
    /\ block \in AcceptBlocks(height_, chain)
    /\ now = 0
    /\ stop_callback_ \in BOOLEAN
    /\ pc = "accept"
    /\ it = 0
    /\ result = <<>>

\* accept_block up to the first RETURN_IF_STOPPED: the work test.
AcceptWork ==
    /\ pc = "accept"
    /\ IF block.header.bits # work_required(height_, chain.previous_block_bits,
                                            chain.actual_timespan)
       THEN Complete("incorrect_proof_of_work")
       ELSE pc' = "median_time_past" /\ UNCHANGED <<it, result>>
    /\ UNCHANGED <<block, now, stop_callback_>>

AcceptTimestamp ==
    /\ pc = "median_time_past"
    /\ Step(block.header.timestamp <= chain.median_time_past,
            "timestamp_too_early", "is_final", 1)
    /\ UNCHANGED <<block, now, stop_callback_>>

\* One turn of the loop over the transactions. The RETURN_IF_STOPPED before
\* the loop precedes the first test, the one closing a turn the next test.
AcceptFinal ==
    /\ pc = "is_final"
    /\ it <= Len(block.transactions)
    /\ Step(~is_final(block.transactions[it], height_, block.header.timestamp),
            "non_final_transaction", "is_final", it + 1)
    /\ UNCHANGED <<block, now, stop_callback_>>

\* The checkpoint test follows the last RETURN_IF_STOPPED of the loop.
AcceptCheckpoint ==
    /\ pc = "is_final"
    /\ it > Len(block.transactions)
    /\ Step(~checkpoint_validate(block.header.hash, height_, checkpoints_),
            "checkpoints_failed", "version", 0)
    /\ UNCHANGED <<block, now, stop_callback_>>

\* accept_block going on to the coinbase height without the version test.
AcceptVersionSkipped ==
    /\ pc = "version"
    /\ Step(FALSE, "old_version_block", "coinbase_height", 0)
    /\ UNCHANGED <<block, now, stop_callback_>>

AcceptVersion ==
    /\ pc = "version"
    /\ Step(block.header.version < 2 /\ height_ > max_version1_height,
            "old_version_block", "coinbase_height", 0)
    /\ UNCHANGED <<block, now, stop_callback_>>

AcceptCoinbaseHeight ==
    /\ pc = "coinbase_height"
    /\ IF stop_callback_ THEN Complete("service_stopped")
       ELSE IF /\ block.header.version >= 2
               /\ ~is_valid_coinbase_height(height_, block)
       THEN Complete("coinbase_height_mismatch")
       ELSE Complete("success")
    /\ UNCHANGED <<block, now, stop_callback_>>

AcceptInit == AcceptConstruct /\ PoolIdle /\ ConnectIdle /\ PopulateIdle /\ OtherIdle

AcceptNext ==
    \/ StopRequested /\ UNCHANGED <<poolVars, restVars>>
    \/ AcceptWork /\ UNCHANGED <<poolVars, restVars>>
    \/ AcceptTimestamp /\ UNCHANGED <<poolVars, restVars>>
    \/ AcceptFinal /\ UNCHANGED <<poolVars, restVars>>
    \/ AcceptCheckpoint /\ UNCHANGED <<poolVars, restVars>>
    \/ AcceptVersion /\ UNCHANGED <<poolVars, restVars>>
    \/ AcceptCoinbaseHeight /\ UNCHANGED <<poolVars, restVars>>

AcceptSpec == AcceptInit /\ [][AcceptNext]_vars

\* accept_block on blocks that carry the required bits, over a wider range of
\* heights, previous bits and timespans: the inputs of work_required.
WorkConstruct ==
    /\ height_ \in {0, 1, readjustment_interval - 1, readjustment_interval,
                    2 * readjustment_interval, 118 * readjustment_interval}
    /\ checkpoints_ = {}
    /\ chain \in [previous_block_bits :
                      \* 0x1d00ffff, 0x1c7fff80, 0x1b0404cb, 0x181645ce, 0x1c00ffff
                      {max_work_bits, 478150528, 453248203, 404111758, 469827583},
                  actual_timespan :
                      {0, 1, target_timespan \div 4 - 1, target_timespan \div 4,
                       target_timespan \div 4 + 1, 907200, target_timespan - 1,
                       target_timespan, target_timespan + 1,
                       target_timespan * 4 - 1, target_timespan * 4,
                       target_timespan * 4 + 1, target_timespan * 6},
                  median_time_past : {MedianTimePast}]
    /\ block = [header |-> [bits |-> work_required(height_,
                                         chain.previous_block_bits,
                                         chain.actual_timespan),
                            hash |-> 7, timestamp |-> MedianTimePast + 2,
                            version |-> 2],
                transactions |-> <<"cb", "lockt">>,
                coinbase_script |-> expect_coinbase(height_)]
    /\ now = 0
    /\ stop_callback_ \in BOOLEAN
    /\ pc = "accept"
    /\ it = 0
    /\ result = <<>>

WorkInit == WorkConstruct /\ PoolIdle /\ ConnectIdle /\ PopulateIdle /\ OtherIdle

WorkSpec == WorkInit /\ [][AcceptNext]_vars

----------------------------------------------------------------------------
\* validate_block::connect_block and the work it posts.

MaxConnectTxs == 2
bip30_exception_block1 == 91842
bip30_exception_block2 == 91880

\* Transactions of the blocks handed to connect_block: the coinbase, a
\* transaction with two outputs, and one whose input spends a coinbase output
\* 50 blocks deep. Every transaction has an output.
ConnectTxs == {"cb", "b", "immature"}
tx_outputs(tx) == IF tx = "b" THEN 2 ELSE 1

Task(method, tx, index, ec) ==
    [method |-> method, tx |-> tx, index |-> index, ec |-> ec]

\* synchronizer::operator(): the first error or the last success clears the
\* counter, and calls after that change nothing.
synchronize(join, ec) ==
    IF join.count = join.clearance THEN join
    ELSE [join EXCEPT !.count = IF ec # "success" THEN join.clearance
                                ELSE join.count + 1]

\* A synchronizer calling its handler on every call.
fires_always(join, ec) == TRUE

\* The synchronizer calls its handler on the call that clears the counter.
fires(join, ec) ==
    /\ join.count # join.clearance
    /\ synchronize(join, ec).count = join.clearance

skip_bip30_rule_first_only(height) == height = bip30_exception_block1

skip_bip30_rule(height) ==
    height = bip30_exception_block1 \/ height = bip30_exception_block2

\* validate_block::validate_block followed by the call of connect_block.
ConnectConstruct ==
    /\ height_ \in {bip30_exception_block1, bip30_exception_block2,
                    bip30_exception_block2 + 1}
    /\ checkpoints_ = {}
    /\ block \in { [header |-> [bits |-> max_work_bits, hash |-> 7,
                                timestamp |-> MedianTimePast + 1, version |-> 1],
                    transactions |-> txs] :
                   txs \in UNION {[1..n -> ConnectTxs] : n \in 1..MaxConnectTxs} }
    /\ \E existing \in SUBSET {hash(block.transactions[i]) :
                                  i \in DOMAIN block.transactions} :
          chain \in { [existing |-> existing, unspent |-> unspent] :
                      unspent \in SUBSET UNION
                          { {<<h, index>> : index \in 0..(tx_outputs(h[1]) - 1)} :
                            h \in existing } }
    /\ now = 0
    /\ stop_callback_ \in BOOLEAN
    /\ pc = "connect"
    /\ it = 0
    /\ result = <<>>
    /\ ConnectIdle

\* connect_block: posts connect_block1 at once at the exception heights, and a
\* check_spent_duplicate per transaction, joined by a synchronizer, elsewhere.
ConnectBlock ==
    /\ pc = "connect"
    /\ IF stop_callback_
       THEN Complete("service_stopped") /\ UNCHANGED connectVars
       ELSE /\ pc' = "returned"
            /\ UNCHANGED <<it, result, called>>
            /\ IF skip_bip30_rule(height_)
               THEN /\ pending' = {Task("connect_block1", 0, 0, "success")}
                    /\ UNCHANGED joins
               ELSE /\ pending' = {Task("check_spent_duplicate", i, 0, "") :
                                      i \in DOMAIN block.transactions}
                    /\ joins' = (0 :> [count |-> 0,
                                       clearance |-> Len(block.transactions)])
    /\ UNCHANGED <<block, now, stop_callback_>>

\* check_spent_duplicate of transaction t.tx. Its handler is the synchronizer
\* of "spent_tx", whose handler posts connect_block1 to the ordered queue.
CheckSpentDuplicate(t) ==
    /\ t \in pending
    /\ t.method = "check_spent_duplicate"
    /\ LET tx_hash == hash(block.transactions[t.tx])
           outputs == tx_outputs(block.transactions[t.tx])
           ec == IF stop_callback_ THEN "service_stopped" ELSE "success"
       IN  IF stop_callback_ \/ tx_hash \notin chain.existing
           THEN /\ called' = called \cup {<<"check_spent_duplicate", t.tx>>}
                      \cup (IF stop_callback_ THEN {}
                            ELSE {<<"transaction_exists", tx_hash>>})
                /\ joins' = [joins EXCEPT ![0] = synchronize(@, ec)]
                /\ pending' = (pending \ {t}) \cup
                      (IF fires(joins[0], ec)
                       THEN {Task("connect_block1", 0, 0, ec)} ELSE {})
           ELSE /\ called' = called \cup {<<"check_spent_duplicate", t.tx>>,
                                          <<"transaction_exists", tx_hash>>}
                /\ joins' = joins @@ (t.tx :> [count |-> 0, clearance |-> outputs])
                /\ pending' = (pending \ {t}) \cup
                      {Task("check_output_spent", t.tx, index, "") :
                          index \in 0..(outputs - 1)}
    /\ UNCHANGED <<block, now, stop_callback_, pc, it, result>>

\* check_output_spent of output t.index of transaction t.tx. Its handler is
\* the synchronizer of "spent_output", whose handler is the one above.
CheckOutputSpent(t) ==
    /\ t \in pending
    /\ t.method = "check_output_spent"
    /\ LET point == <<hash(block.transactions[t.tx]), t.index>>
           ec == IF stop_callback_ THEN "service_stopped"
                 ELSE IF point \notin chain.unspent THEN "success"
                 ELSE "duplicate_or_spent"
           joined == fires(joins[t.tx], ec)
       IN  /\ called' = called \cup
                 (IF stop_callback_ THEN {}
                  ELSE {<<"is_output_spent", point[1], point[2]>>})
           /\ joins' = [joins EXCEPT ![t.tx] = synchronize(@, ec),
                                     ![0] = IF joined THEN synchronize(@, ec) ELSE @]
           /\ pending' = (pending \ {t}) \cup
                 (IF joined /\ fires(joins[0], ec)
                  THEN {Task("connect_block1", 0, 0, ec)} ELSE {})
    /\ UNCHANGED <<block, now, stop_callback_, pc, it, result>>

\* connect_block1 returning without a call of complete when stopped.
ConnectBlock1Silent(t) ==
    /\ t \in pending
    /\ t.method = "connect_block1"
    /\ pending' = pending \ {t}
    /\ IF stop_callback_ THEN UNCHANGED <<pc, it, result>>
       ELSE Complete("unknown")
    /\ UNCHANGED <<block, now, stop_callback_, joins, called>>

\* connect_block1(ec, complete): ec is not read.
ConnectBlock1(t) ==
    /\ t \in pending
    /\ t.method = "connect_block1"
    /\ pending' = pending \ {t}
    /\ IF stop_callback_ THEN Complete("service_stopped")
       ELSE Complete("unknown")
    /\ UNCHANGED <<block, now, stop_callback_, joins, called>>

ConnectInit == ConnectConstruct /\ PoolIdle /\ PopulateIdle /\ OtherIdle

ConnectNext ==
    \/ StopRequested /\ UNCHANGED <<poolVars, restVars>>
    \/ ConnectBlock /\ UNCHANGED <<poolVars, chainVars, populateVars, otherVars>>
    \/ (\E t \in pending : CheckSpentDuplicate(t)) /\ UNCHANGED <<poolVars, chainVars, populateVars, otherVars>>
    \/ (\E t \in pending : CheckOutputSpent(t)) /\ UNCHANGED <<poolVars, chainVars, populateVars, otherVars>>
    \/ (\E t \in pending : ConnectBlock1(t)) /\ UNCHANGED <<poolVars, chainVars, populateVars, otherVars>>

ConnectSpec == ConnectInit /\ [][ConnectNext]_vars

\* The three phases of validate_block, one per behaviour.
ValidateSpec ==
    /\ CheckInit \/ AcceptInit \/ ConnectInit
    /\ [][CheckNext \/ AcceptNext \/ ConnectNext]_vars

----------------------------------------------------------------------------
\* populate_block (src/src/populate/populate_block.cpp).

MaxPopulateTxs == 2
MaxInputs == 3
MaxThreads == 3

\* block->total_non_coinbase_inputs(): the inputs of transactions 1..n-1.
total_non_coinbase_inputs(ins) == Sum(ins, Len(ins)) - ins[1]

\* The previous outputs of the non-coinbase inputs: <<transaction, input>>.
Prevouts(ins) ==
    {pt \in (1..(Len(ins) - 1)) \X (0..(MaxInputs - 1)) : pt[2] < ins[pt[1] + 1]}

\* The call of populate on a block whose first transaction is the coinbase.
PopulateConstruct ==
    /\ state \in {"null", "under_checkpoint", "allow_collisions", "no_collisions"}
    /\ stale \in BOOLEAN
    /\ inputs \in {<<1>> \o rest :
                     rest \in UNION {[1..n -> 1..MaxInputs] : n \in 0..MaxPopulateTxs}}
    /\ threads \in 1..MaxThreads
    /\ buckets = 0
    /\ bucket_at = <<>>
    /\ populated = [transactions |-> [p \in 0..(Len(inputs) - 1) |-> <<>>],
                    outputs |-> [pt \in Prevouts(inputs) |-> <<>>],
                    coinbase |-> <<>>]
    /\ join_handler = [count |-> 0, clearance |-> 0]
    /\ handled = <<>>

\* populate_coinbase without the writes to the metadata of the input.
populate_coinbase_transaction_only(p) ==
    [p EXCEPT !.transactions[0] = Append(@, -1)]

\* populate_coinbase, on the calling thread (written as bucket -1): the
\* metadata of the previous output of the lone input of the coinbase is
\* written, then the coinbase is populated as a transaction. The field
\* coinbase lists the writes to that metadata.
populate_coinbase(p) ==
    [p EXCEPT !.coinbase = Append(@, [by |-> -1, spent |-> FALSE,
                                      confirmed |-> TRUE, cache |-> "empty",
                                      coinbase_height |-> "unspecified"]),
              !.transactions[0] = Append(@, -1)]

\* populate without the return after handler(error::operation_failed).
PopulateIgnoringNull ==
    /\ buckets = 0
    /\ handled = <<>>
    /\ populated' = populate_coinbase(populated)
    /\ handled' = <<IF state = "null" THEN "operation_failed" ELSE "success">>
    /\ UNCHANGED <<state, stale, inputs, threads, buckets, bucket_at, join_handler>>

\* populate with the checkpoint test placed after populate_coinbase.
PopulateIgnoringCheckpoint ==
    /\ buckets = 0
    /\ handled = <<>>
    /\ IF state = "null"
       THEN /\ handled' = <<"operation_failed">>
            /\ UNCHANGED populated
       ELSE /\ populated' = populate_coinbase(populated)
            /\ handled' = <<"success">>
    /\ UNCHANGED <<state, stale, inputs, threads, buckets, bucket_at, join_handler>>

\* populate_block::populate. populate_coinbase populates transaction 0 on the
\* calling thread, written here as bucket -1.
Populate ==
    /\ buckets = 0
    /\ handled = <<>>
    /\ IF state = "null"
       THEN /\ handled' = <<"operation_failed">>
            /\ UNCHANGED <<buckets, bucket_at, populated, join_handler>>
       ELSE IF state = "under_checkpoint"
       THEN /\ handled' = <<"success">>
            /\ UNCHANGED <<buckets, bucket_at, populated, join_handler>>
       ELSE /\ populated' = populate_coinbase(populated)
            /\ IF total_non_coinbase_inputs(inputs) = 0
               THEN /\ handled' = <<"success">>
                    /\ UNCHANGED <<buckets, bucket_at, join_handler>>
               ELSE LET count == IF threads < total_non_coinbase_inputs(inputs)
                                 THEN threads
                                 ELSE total_non_coinbase_inputs(inputs)
                    IN  /\ buckets' = count
                        /\ join_handler' = [count |-> 0, clearance |-> count]
                        /\ bucket_at' = [b \in 0..(count - 1) |->
                                            [pc |-> "transactions", tx |-> 1,
                                             input_index |-> 0, input_position |-> 0]]
                        /\ UNCHANGED handled
    /\ UNCHANGED <<state, stale, inputs, threads>>

\* The first loop started at the bucket's own number in every bucket, the
\* coinbase not skipped by bucket 0.
transaction_positions_from_bucket(bucket, count, size) ==
    {p \in 0..(size - 1) : p >= bucket /\ (p - bucket) % count = 0}

\* The positions of the first loop of populate_transactions: from first in
\* steps of buckets (ceiling_add does not saturate at these sizes).
transaction_positions(bucket, count, size) ==
    LET first == IF bucket = 0 THEN count ELSE bucket
    IN  {p \in 0..(size - 1) : p >= first /\ (p - first) % count = 0}

\* The test with && in the place of ||.
is_populating_both(is_blocks_stale, chain_state) ==
    ~is_blocks_stale /\ chain_state # "allow_collisions"

\* The test that guards the first loop of populate_transactions.
is_populating(is_blocks_stale, chain_state) ==
    ~is_blocks_stale \/ chain_state # "allow_collisions"

\* populate_transactions up to the loop over the inputs.
BucketTransactions(b) ==
    /\ b \in DOMAIN bucket_at
    /\ bucket_at[b].pc = "transactions"
    /\ populated' =
          IF is_populating(stale, state)
          THEN [populated EXCEPT !.transactions =
                   [p \in DOMAIN @ |->
                       IF p \in transaction_positions(b, buckets, Len(inputs))
                       THEN Append(@[p], b) ELSE @[p]]]
          ELSE populated
    /\ bucket_at' = [bucket_at EXCEPT ![b].pc = "outputs"]
    /\ UNCHANGED <<state, stale, inputs, threads, buckets, join_handler, handled>>

\* The test replaced by one that every bucket passes for every input.
is_selected_always(input_position, bucket, count) == TRUE

\* The test of the inner loop: this input is this bucket's.
is_selected(input_position, bucket, count) == input_position % count = bucket

\* One turn of the loops over the inputs of transactions 1..n-1: the end of
\* the outer loop, the end of an inner loop, or one input.
BucketOutputs(b) ==
    /\ b \in DOMAIN bucket_at
    /\ bucket_at[b].pc = "outputs"
    /\ LET at == bucket_at[b]
       IN  IF at.tx >= Len(inputs)
           THEN /\ bucket_at' = [bucket_at EXCEPT ![b].pc = "handler"]
                /\ UNCHANGED populated
           ELSE IF at.input_index >= inputs[at.tx + 1]
           THEN /\ bucket_at' = [bucket_at EXCEPT ![b].tx = at.tx + 1,
                                                  ![b].input_index = 0]
                /\ UNCHANGED populated
           ELSE /\ bucket_at' = [bucket_at EXCEPT
                                    ![b].input_index = at.input_index + 1,
                                    ![b].input_position = at.input_position + 1]
                /\ populated' =
                      IF ~is_selected(at.input_position, b, buckets)
                      THEN populated
                      ELSE IF at.tx = 0
                      THEN [populated EXCEPT !.coinbase =
                               Append(@, [by |-> b, spent |-> FALSE,
                                          confirmed |-> FALSE, cache |-> "empty",
                                          coinbase_height |-> "unspecified"])]
                      ELSE [populated EXCEPT !.outputs[<<at.tx, at.input_index>>]
                                                 = Append(@, b)]
    /\ UNCHANGED <<state, stale, inputs, threads, buckets, join_handler, handled>>

\* handler(error::success) closing populate_transactions: the synchronizer
\* calls the result handler when its counter clears.
BucketHandler(b) ==
    /\ b \in DOMAIN bucket_at
    /\ bucket_at[b].pc = "handler"
    /\ bucket_at' = [bucket_at EXCEPT ![b].pc = "done"]
    /\ join_handler' = synchronize(join_handler, "success")
    /\ handled' = IF fires(join_handler, "success")
                  THEN Append(handled, "success")
                  ELSE handled
    /\ UNCHANGED <<state, stale, inputs, threads, buckets, populated>>

\* The top block ages past the limit, or a fresh block arrives, while the
\* buckets run.
StaleChanges ==
    /\ \E b \in DOMAIN bucket_at : bucket_at[b].pc = "transactions"
    /\ stale' = ~stale
    /\ UNCHANGED <<state, inputs, threads, buckets, bucket_at, populated,
                   join_handler, handled>>

PopulateInit ==
    PopulateConstruct /\ PoolIdle /\ CheckIdle /\ ChainIdle /\ ConnectIdle
        /\ OtherIdle

PopulateNext ==
    \/ Populate /\ UNCHANGED <<poolVars, checkVars, chainVars, connectVars, otherVars>>
    \/ (\E b \in DOMAIN bucket_at : BucketTransactions(b))
          /\ UNCHANGED <<poolVars, checkVars, chainVars, connectVars, otherVars>>
    \/ (\E b \in DOMAIN bucket_at : BucketOutputs(b))
          /\ UNCHANGED <<poolVars, checkVars, chainVars, connectVars, otherVars>>
    \/ (\E b \in DOMAIN bucket_at : BucketHandler(b))
          /\ UNCHANGED <<poolVars, checkVars, chainVars, connectVars, otherVars>>
    \/ StaleChanges /\ UNCHANGED <<poolVars, checkVars, chainVars, connectVars, otherVars>>

PopulateSpec == PopulateInit /\ [][PopulateNext]_vars

----------------------------------------------------------------------------
\* populate_chain_state (src/src/populate/populate_chain_state.cpp).

MaxTop == 3
MaxBranch == 2
MaxCount == 2

\* size_t, narrowed to SizeBits bits: a difference and the pre-increment
\* wrap around at 2^SizeBits.
SizeBits == 8
max_size_t == 2^SizeBits - 1
minus(high, count) == (high - count) % (max_size_t + 1)
increment(height) == (height + 1) % (max_size_t + 1)

\* chain_state::map::unrequested, and the values a getter leaves untouched:
\* an element of a resized vector, unspecified_timestamp, null_hash.
unrequested == -1
zero == <<"zero", 0>>
unspecified_timestamp == <<"unspecified", 0>>
null_hash == <<"null_hash", 0>>

\* header_branch::get_bits / get_version / get_timestamp / get_block_hash:
\* the branch answers for the heights above its fork point that it holds.
branch_get(b, height) ==
    height > b.fork_height /\ height <= b.fork_height + b.size

\* fast_chain::get_bits / get_version / get_timestamp / get_block_hash: the
\* index answers for the heights up to its top.
fast_chain_get(height) == height >= 0 /\ height <= indexed_top

\* A getter that asks the index first and the branch second.
get_chain_first(kind, out, height, b) ==
    IF fast_chain_get(height)
    THEN [ok |-> TRUE, value |-> <<"chain", height>>,
          log |-> <<[who |-> "chain", kind |-> kind, height |-> height]>>]
    ELSE [ok |-> branch_get(b, height),
          value |-> IF branch_get(b, height) THEN <<"branch", height>> ELSE out,
          log |-> <<[who |-> "chain", kind |-> kind, height |-> height],
                    [who |-> "branch", kind |-> kind, height |-> height]>>]

\* populate_chain_state::get_bits / get_version / get_timestamp /
\* get_block_hash: branch->get(out, height) || fast_chain_.get(out, height).
get(kind, out, height, b) ==
    IF branch_get(b, height)
    THEN [ok |-> TRUE, value |-> <<"branch", height>>,
          log |-> <<[who |-> "branch", kind |-> kind, height |-> height]>>]
    ELSE [ok |-> fast_chain_get(height),
          value |-> IF fast_chain_get(height) THEN <<"chain", height>> ELSE out,
          log |-> <<[who |-> "branch", kind |-> kind, height |-> height],
                    [who |-> "chain", kind |-> kind, height |-> height]>>]

\* The loop without the test of what get returns.
ordered_unchecked(kind, height, n, b) ==
    [ok |-> TRUE,
     value |-> [i \in 1..n |-> get(kind, zero, (height + i) % (max_size_t + 1), b).value],
     log |-> <<>>]

\* The loop with get(element, height++): the height is read, then
\* incremented.
RECURSIVE ordered_post_increment(_, _, _, _)
ordered_post_increment(kind, height, n, b) ==
    IF n = 0
    THEN [ok |-> TRUE, value |-> <<>>, log |-> <<>>]
    ELSE LET g == get(kind, zero, height, b)
             rest == ordered_post_increment(kind, increment(height), n - 1, b)
         IN  IF g.ok
             THEN [ok |-> rest.ok, value |-> <<g.value>> \o rest.value,
                   log |-> g.log \o rest.log]
             ELSE [ok |-> FALSE, value |-> [i \in 1..n |-> zero], log |-> g.log]

\* The loop over a resized vector: get(element, ++height) for each of its n
\* elements, left at the first failure.
RECURSIVE ordered(_, _, _, _)
ordered(kind, height, n, b) ==
    IF n = 0
    THEN [ok |-> TRUE, value |-> <<>>, log |-> <<>>]
    ELSE LET g == get(kind, zero, increment(height), b)
             rest == ordered(kind, increment(height), n - 1, b)
         IN  IF g.ok
             THEN [ok |-> rest.ok, value |-> <<g.value>> \o rest.value,
                   log |-> g.log \o rest.log]
             ELSE [ok |-> FALSE, value |-> [i \in 1..n |-> zero], log |-> g.log]

\* chain_state::get_map(height, checkpoints_, forks_): windows that end
\* below the height and hold at most the heights there are, the self values
\* at the height, the retarget timestamp and the collision hash where the
\* settings ask for them.
get_map(height, settings) ==
    LET range(c) == [high |-> height - 1,
                     count |-> IF height < c THEN height ELSE c]
    IN  [bits |-> range(settings.bits), bits_self |-> height,
         version |-> range(settings.version), version_self |-> height,
         timestamp |-> range(settings.timestamp), timestamp_self |-> height,
         timestamp_retarget |->
             IF settings.retarget /\ height >= MaxCount
             THEN height - MaxCount ELSE unrequested,
         allow_collisions_height |->
             IF settings.collisions # unrequested /\ height >= settings.collisions
             THEN settings.collisions ELSE unrequested]

\* A default-constructed chain_state::data with hash and height set.
Data(height) ==
    [height |-> height,
     bits |-> [ordered |-> <<>>, self |-> zero],
     version |-> [ordered |-> <<>>, self |-> zero],
     timestamp |-> [ordered |-> <<>>, self |-> zero, retarget |-> zero],
     allow_collisions_hash |-> zero]

\* The indexes, header branches of the given sizes and settings populate is
\* called with; the parent of the top is a header of the branch when it has
\* a state.
EngineConstructOf(sizes) ==
    /\ indexed_top \in -1..MaxTop
    /\ branch \in [fork_height : 0..(MaxTop - 1), size : sizes,
                   parent_state : BOOLEAN]
    /\ branch.parent_state => branch.size > 1
    /\ forks_ \in [bits : 0..MaxCount, version : 0..MaxCount,
                   timestamp : 0..MaxCount, retarget : BOOLEAN,
                   collisions : {unrequested, 0, 1}]
    /\ map = <<>>
    /\ data = <<>>
    /\ queries = <<>>
    /\ engine = "idle"
    /\ returned = <<>>
    /\ entered = <<>>

\* populate is called with a header branch that is not empty.
EngineConstruct == EngineConstructOf(1..MaxBranch)

\* populate(bool block_index) up to get_block_hash: the height of the top of
\* the index is read; the branch of this call is the empty one.
PopulateTop ==
    /\ engine = "idle"
    /\ branch' = [fork_height |-> 0, size |-> 0, parent_state |-> FALSE]
    /\ entered' = <<[call |-> "get_block_height", height |-> indexed_top]>>
    /\ IF indexed_top < 0
       THEN /\ returned' = <<"null">>
            /\ engine' = "done"
       ELSE /\ engine' = "hash"
            /\ UNCHANGED returned
    /\ UNCHANGED <<indexed_top, forks_, map, data, queries>>

\* populate(bool block_index) from get_block_hash up to populate_all: the
\* hash at the height read is asked of the index.
PopulateTopHash ==
    /\ engine = "hash"
    /\ LET height == entered[1].height
       IN  /\ entered' = Append(entered, [call |-> "get_block_hash",
                                          height |-> height])
           /\ IF ~fast_chain_get(height)
              THEN /\ returned' = <<"null">>
                   /\ engine' = "done"
                   /\ UNCHANGED <<map, data>>
              ELSE /\ data' = Data(height)
                   /\ map' = get_map(height, forks_)
                   /\ engine' = "bits"
                   /\ UNCHANGED returned
    /\ UNCHANGED <<indexed_top, branch, forks_, queries>>

\* The top block of the index is popped by a reorganization while populate
\* runs.
IndexPops ==
    /\ engine \notin {"idle", "done"}
    /\ indexed_top >= 0
    /\ indexed_top' = indexed_top - 1
    /\ UNCHANGED <<branch, forks_, map, data, queries, engine, returned, entered>>

\* populate(branch) with branch->empty() not tested: the top of the branch
\* is taken to be the header at its fork point.
PopulateBranchUnguarded ==
    /\ engine = "idle"
    /\ entered' = <<[call |-> "top", height |-> branch.fork_height + branch.size],
                    [call |-> "top_parent",
                     height |-> branch.fork_height + branch.size - 1]>>
    /\ IF branch.parent_state
       THEN /\ returned' = <<"promoted">>
            /\ engine' = "done"
            /\ UNCHANGED <<map, data>>
       ELSE /\ data' = Data(branch.fork_height + branch.size)
            /\ map' = get_map(branch.fork_height + branch.size, forks_)
            /\ engine' = "bits"
            /\ UNCHANGED returned
    /\ UNCHANGED <<indexed_top, branch, forks_, queries>>

\* populate(branch) up to populate_all: nothing for an empty branch, the
\* state promoted from the parent's when the parent of the top has one.
PopulateBranch ==
    /\ engine = "idle"
    /\ IF branch.size = 0
       THEN /\ entered' = <<[call |-> "empty", height |-> 0]>>
            /\ returned' = <<"null">>
            /\ engine' = "done"
            /\ UNCHANGED <<map, data>>
       ELSE /\ entered' =
                  <<[call |-> "empty", height |-> 0],
                    [call |-> "top", height |-> branch.fork_height + branch.size],
                    [call |-> "top_parent",
                     height |-> branch.fork_height + branch.size - 1]>>
            /\ IF branch.parent_state
               THEN /\ returned' = <<"promoted">>
                    /\ engine' = "done"
                    /\ UNCHANGED <<map, data>>
               ELSE /\ data' = Data(branch.fork_height + branch.size)
                    /\ map' = get_map(branch.fork_height + branch.size, forks_)
                    /\ engine' = "bits"
                    /\ UNCHANGED returned
    /\ UNCHANGED <<indexed_top, branch, forks_, queries>>

\* What a populate_* call leaves: the next call of populate_all when it
\* returned true, the null pointer when it returned false.
Populated(ok, next, log) ==
    /\ queries' = queries \o log
    /\ engine' = IF ok THEN next ELSE "done"
    /\ returned' = IF ok THEN returned ELSE <<"null">>
    /\ UNCHANGED <<indexed_top, branch, forks_, map, entered>>

\* populate_bits.
PopulateBits ==
    /\ engine = "bits"
    /\ LET o == ordered("bits", minus(map.bits.high, map.bits.count), map.bits.count,
                        branch)
           self == get("bits", data.bits.self, map.bits_self, branch)
       IN  IF ~o.ok
           THEN /\ data' = [data EXCEPT !.bits.ordered = o.value]
                /\ Populated(FALSE, "versions", o.log)
           ELSE /\ data' = [data EXCEPT !.bits.ordered = o.value,
                                        !.bits.self = self.value]
                /\ Populated(self.ok, "versions", o.log \o self.log)

\* populate_versions.
PopulateVersions ==
    /\ engine = "versions"
    /\ LET o == ordered("version", minus(map.version.high, map.version.count),
                        map.version.count, branch)
           self == get("version", data.version.self, map.version_self, branch)
       IN  IF ~o.ok
           THEN /\ data' = [data EXCEPT !.version.ordered = o.value]
                /\ Populated(FALSE, "timestamps", o.log)
           ELSE /\ data' = [data EXCEPT !.version.ordered = o.value,
                                        !.version.self = self.value]
                /\ Populated(self.ok, "timestamps", o.log \o self.log)

\* populate_timestamps.
PopulateTimestamps ==
    /\ engine = "timestamps"
    /\ LET o == ordered("timestamp", minus(map.timestamp.high, map.timestamp.count),
                        map.timestamp.count, branch)
           retarget == IF map.timestamp_retarget # unrequested
                       THEN get("timestamp", unspecified_timestamp,
                                map.timestamp_retarget, branch)
                       ELSE [ok |-> TRUE, value |-> unspecified_timestamp,
                             log |-> <<>>]
           self == get("timestamp", data.timestamp.self, map.timestamp_self,
                       branch)
       IN  IF ~o.ok
           THEN /\ data' = [data EXCEPT !.timestamp.ordered = o.value,
                                        !.timestamp.retarget = unspecified_timestamp]
                /\ Populated(FALSE, "checkpoint", o.log)
           ELSE IF ~retarget.ok
           THEN /\ data' = [data EXCEPT !.timestamp.ordered = o.value,
                                        !.timestamp.retarget = retarget.value]
                /\ Populated(FALSE, "checkpoint", o.log \o retarget.log)
           ELSE /\ data' = [data EXCEPT !.timestamp.ordered = o.value,
                                        !.timestamp.retarget = retarget.value,
                                        !.timestamp.self = self.value]
                /\ Populated(self.ok, "checkpoint",
                             o.log \o retarget.log \o self.log)

\* populate_checkpoint without the test for unrequested: the hash is read at
\* whatever the map holds.
PopulateCheckpointUnconditional ==
    /\ engine = "checkpoint"
    /\ LET found == get("block_hash", data.allow_collisions_hash,
                        map.allow_collisions_height % (max_size_t + 1), branch)
       IN  /\ data' = [data EXCEPT !.allow_collisions_hash = found.value]
           /\ queries' = queries \o found.log
           /\ engine' = "done"
           /\ returned' = IF found.ok THEN <<"state">> ELSE <<"null">>
           /\ UNCHANGED <<indexed_top, branch, forks_, map, entered>>

\* populate_checkpoint and the construction of the chain state that follows
\* a populate_all that returned true.
PopulateCheckpoint ==
    /\ engine = "checkpoint"
    /\ LET found == IF map.allow_collisions_height = unrequested
                   THEN [ok |-> TRUE, value |-> null_hash, log |-> <<>>]
                   ELSE get("block_hash", data.allow_collisions_hash,
                            map.allow_collisions_height, branch)
       IN  /\ data' = [data EXCEPT !.allow_collisions_hash = found.value]
           /\ queries' = queries \o found.log
           /\ engine' = "done"
           /\ returned' = IF found.ok THEN <<"state">> ELSE <<"null">>
           /\ UNCHANGED <<indexed_top, branch, forks_, map, entered>>

EngineInit ==
    EngineConstruct /\ PoolIdle /\ CheckIdle /\ ChainIdle /\ ConnectIdle
        /\ PopulateIdle /\ OrganizerIdle /\ InputIdle

EngineNext ==
    \/ PopulateTop
          /\ UNCHANGED <<poolVars, checkVars, chainVars, connectVars, populateVars,
                         organizerVars, inputVars>>
    \/ PopulateTopHash
          /\ UNCHANGED <<poolVars, checkVars, chainVars, connectVars, populateVars,
                         organizerVars, inputVars>>
    \/ PopulateBranch
          /\ UNCHANGED <<poolVars, checkVars, chainVars, connectVars, populateVars,
                         organizerVars, inputVars>>
    \/ PopulateBits
          /\ UNCHANGED <<poolVars, checkVars, chainVars, connectVars, populateVars,
                         organizerVars, inputVars>>
    \/ PopulateVersions
          /\ UNCHANGED <<poolVars, checkVars, chainVars, connectVars, populateVars,
                         organizerVars, inputVars>>
    \/ PopulateTimestamps
          /\ UNCHANGED <<poolVars, checkVars, chainVars, connectVars, populateVars,
                         organizerVars, inputVars>>
    \/ PopulateCheckpoint
          /\ UNCHANGED <<poolVars, checkVars, chainVars, connectVars, populateVars,
                         organizerVars, inputVars>>

EngineSpec == EngineInit /\ [][EngineNext]_vars

\* populate called with any header branch, the empty one too, on an index
\* that a reorganization can shorten meanwhile.
ReaderInit ==
    EngineConstructOf(0..MaxBranch) /\ PoolIdle /\ CheckIdle /\ ChainIdle
        /\ ConnectIdle /\ PopulateIdle /\ OrganizerIdle /\ InputIdle

ReaderNext ==
    \/ EngineNext
    \/ IndexPops
          /\ UNCHANGED <<poolVars, checkVars, chainVars, connectVars, populateVars,
                         organizerVars, inputVars>>

ReaderSpec == ReaderInit /\ [][ReaderNext]_vars

----------------------------------------------------------------------------
\* The organizer (src/include/bitcoin/blockchain/organizer.hpp declares it;
\* its steps are those of the design: insert into the orphan pool, find the
\* branch, compare the work, accept and connect, reorganize, emit).

MaxBlocks == 4
MaxWork == 2
MaxSubscribers == 2

\* Block 0 is the genesis block, at height 0 of the indexed chain.
is_indexed(b) == b = 0 \/ \E i \in DOMAIN indexed : indexed[i] = b

\* The height of an indexed block.
indexed_height(b) ==
    IF b = 0 THEN 0 ELSE CHOOSE i \in DOMAIN indexed : indexed[i] = b

\* path_to_root: the branch that ends at b, walking the parent links while
\* the parent is in the pool.
RECURSIVE path_to_root(_, _)
path_to_root(pool, b) ==
    IF headers[b].parent \in pool
    THEN Append(path_to_root(pool, headers[b].parent), b)
    ELSE <<b>>

\* b is a or a descendant of a.
RECURSIVE descends(_, _)
descends(b, a) == b = a \/ (b # 0 /\ descends(headers[b].parent, a))

\* The summed work of a list of blocks.
summed_work(blocks) == Sum([i \in DOMAIN blocks |-> headers[blocks[i]].work],
                           Len(blocks))

\* The comparison that lets a branch of equal work replace the chain.
heavier_or_equal(incoming, outgoing) ==
    summed_work(incoming) >= summed_work(outgoing)

\* The comparison of the cumulative work of the branch with that of the
\* indexed chain above the fork point.
heavier(incoming, outgoing) == summed_work(incoming) > summed_work(outgoing)

\* An emission that hands the event to the handlers newest first.
notify_newest_first(subscribed, seen, event) ==
    [s \in DOMAIN seen |->
        IF s \in subscribed THEN <<event>> \o seen[s] ELSE seen[s]]

\* notify_reorganize: every subscribed handler receives the event once.
notify_reorganize(subscribed, seen, event) ==
    [s \in DOMAIN seen |->
        IF s \in subscribed THEN Append(seen[s], event) ELSE seen[s]]

\* An organizer over an index that holds the genesis block, and the blocks
\* that will arrive: each on an earlier block, each with its work.
OrganizerConstruct ==
    /\ headers \in [1..MaxBlocks -> [parent : 0..(MaxBlocks - 1), work : 1..MaxWork]]
    /\ \A b \in DOMAIN headers : headers[b].parent < b
    /\ indexed = <<>>
    /\ orphans = {}
    /\ invalid = {}
    /\ subscribers = {}
    /\ events = <<>>
    /\ observed = [s \in 1..MaxSubscribers |-> <<>>]

\* subscribe_reorganize: the handler receives the next fork event.
SubscribeReorganize(s) ==
    /\ s \notin subscribers
    /\ subscribers' = subscribers \cup {s}
    /\ UNCHANGED <<headers, indexed, orphans, invalid, events, observed>>

\* process: the arrival of block b. The branch stays in the pool when its
\* root has no indexed parent or its work is not greater; a block that fails
\* accept_block or connect_block is clipped with its descendants and nothing
\* is committed; else the branch replaces the chain above the fork point and
\* the fork event is emitted to the one-shot subscriptions.
Process(b) ==
    /\ b \notin orphans \cup invalid
    /\ ~is_indexed(b)
    /\ LET pool == orphans \cup {b}
           incoming == path_to_root(pool, b)
           root == headers[incoming[1]].parent
           fork_point == indexed_height(root)
           outgoing == SubSeq(indexed, fork_point + 1, Len(indexed))
       IN  IF ~is_indexed(root) \/ ~heavier(incoming, outgoing)
           THEN /\ orphans' = pool
                /\ UNCHANGED <<indexed, invalid, subscribers, events, observed>>
           ELSE \E failed \in 0..Len(incoming) :
                   IF failed # 0
                   THEN LET clipped == {x \in pool : descends(x, incoming[failed])}
                        IN  /\ orphans' = pool \ clipped
                            /\ invalid' = invalid \cup clipped
                            /\ UNCHANGED <<indexed, subscribers, events, observed>>
                   ELSE /\ indexed' = SubSeq(indexed, 1, fork_point) \o incoming
                        /\ orphans' = pool \ {incoming[i] : i \in DOMAIN incoming}
                        /\ events' = Append(events, [fork_point |-> fork_point,
                                                     incoming |-> incoming,
                                                     outgoing |-> outgoing])
                        /\ observed' = notify_reorganize(subscribers, observed,
                                                         Len(events) + 1)
                        /\ subscribers' = {}
                        /\ UNCHANGED invalid
    /\ UNCHANGED headers

OrganizerInit ==
    OrganizerConstruct /\ PoolIdle /\ CheckIdle /\ ChainIdle /\ ConnectIdle
        /\ PopulateIdle /\ EngineIdle /\ InputIdle

OrganizerNext ==
    \/ (\E s \in 1..MaxSubscribers : SubscribeReorganize(s))
          /\ UNCHANGED <<poolVars, checkVars, chainVars, connectVars, populateVars,
                         engineVars, inputVars>>
    \/ (\E b \in 1..MaxBlocks : Process(b))
          /\ UNCHANGED <<poolVars, checkVars, chainVars, connectVars, populateVars,
                         engineVars, inputVars>>

OrganizerSpec == OrganizerInit /\ [][OrganizerNext]_vars

----------------------------------------------------------------------------
\* validate_block::validate_inputs and connect_input
\* (src/src/validate_block.cpp).

MaxOutputs == 2

\* Amounts are counted in coins: max_money() is 21 million of them.
max_money == 21000000
coinbase_maturity == 100

\* What one input of the transaction refers to: whether fetch_transaction
\* finds the previous transaction, how many outputs it has and the index the
\* input names (the first output or one past the last), whether it is a
\* coinbase, height_ - previous_height, the output at a valid index (value,
\* sigops of the eval script, -1 for one that does not parse, verdict of the
\* script), and whether is_output_spent finds the output spent.
PreviousOutputs ==
    [fetched : BOOLEAN, outputs : 1..MaxOutputs, index : {0, MaxOutputs},
     is_coinbase : BOOLEAN,
     height_difference : {coinbase_maturity - 1, coinbase_maturity},
     value : {0, 1, max_money, max_money + 1}, sigops : {-1, 0, 1},
     consensus : BOOLEAN, spent : BOOLEAN]

\* The call of validate_inputs on a transaction, about to call connect_input
\* for its first input.
ConnectInputConstruct ==
    /\ prevout \in PreviousOutputs
    /\ previous_tx_out = <<>>
    /\ input_pc = "idle"
    /\ connected = <<>>
    /\ total_sigops \in {0, max_block_script_sig_operations - 1,
                         max_block_script_sig_operations}
    /\ value_in = 0
    /\ added = <<>>

\* What a return of connect_input leaves: validate_inputs returns false after
\* a false, true after the last input, and calls connect_input for the next
\* input otherwise.
Returned(value) ==
    /\ connected' = Append(connected, value)
    /\ previous_tx_out' = <<>>
    /\ \/ /\ input_pc' = "done"
          /\ UNCHANGED prevout
       \/ /\ value
          /\ Len(connected) + 1 < MaxInputs
          /\ input_pc' = "idle"
          /\ prevout' \in PreviousOutputs

\* connect_input up to the return after a failed fetch_transaction.
ConnectInputFetch ==
    /\ input_pc = "idle"
    /\ IF prevout.fetched
       THEN input_pc' = "output" /\ UNCHANGED <<prevout, previous_tx_out, connected>>
       ELSE /\ connected' = Append(connected, FALSE)
            /\ input_pc' = "done"
            /\ UNCHANGED <<prevout, previous_tx_out>>
    /\ UNCHANGED <<total_sigops, value_in, added>>

\* previous_tx.outputs[previous_output.index]: the output at the index, and
\* past the end of the vector whatever the build makes of it, a fault or an
\* output of any content.
ConnectInputOutput ==
    /\ input_pc = "output"
    /\ IF prevout.index < prevout.outputs
       THEN /\ previous_tx_out' = [exists |-> TRUE, value |-> prevout.value,
                                   sigops |-> prevout.sigops,
                                   consensus |-> prevout.consensus]
            /\ input_pc' = "checks"
       ELSE \/ input_pc' = "fault" /\ UNCHANGED previous_tx_out
            \/ /\ previous_tx_out' \in [exists : {FALSE},
                                        value : {0, max_money + 1},
                                        sigops : {-1, 0}, consensus : BOOLEAN]
               /\ input_pc' = "checks"
    /\ UNCHANGED <<prevout, connected, total_sigops, value_in, added>>

\* The maturity test with the boundary on the wrong side.
immature_inclusive(is_coinbase_tx, height_difference) ==
    is_coinbase_tx /\ height_difference <= coinbase_maturity

\* The maturity test: a coinbase spent at a depth below coinbase_maturity.
immature(is_coinbase_tx, height_difference) ==
    is_coinbase_tx /\ height_difference < coinbase_maturity

\* The tests on the bound output, in order: eval script and total sigops,
\* output value, coinbase maturity, script consensus, double spend, value_in.
ConnectInputChecks ==
    /\ input_pc = "checks"
    /\ LET out == previous_tx_out
           sigops == IF out.sigops < 0 THEN total_sigops
                     ELSE total_sigops + out.sigops
           passed == /\ out.sigops >= 0
                     /\ sigops <= max_block_script_sig_operations
                     /\ out.value <= max_money
                     /\ ~immature(prevout.is_coinbase, prevout.height_difference)
                     /\ out.consensus
                     /\ ~prevout.spent
       IN  /\ total_sigops' = sigops
           /\ value_in' = IF passed THEN value_in + out.value ELSE value_in
           /\ added' = IF passed THEN Append(added, out.value) ELSE added
           /\ Returned(passed /\ value_in + out.value <= max_money)

InputInit ==
    ConnectInputConstruct /\ PoolIdle /\ CheckIdle /\ ChainIdle /\ ConnectIdle
        /\ PopulateIdle /\ EngineIdle /\ OrganizerIdle

InputNext ==
    \/ ConnectInputFetch
          /\ UNCHANGED <<poolVars, checkVars, chainVars, connectVars, populateVars,
                         engineVars, organizerVars>>
    \/ ConnectInputOutput
          /\ UNCHANGED <<poolVars, checkVars, chainVars, connectVars, populateVars,
                         engineVars, organizerVars>>
    \/ ConnectInputChecks
          /\ UNCHANGED <<poolVars, checkVars, chainVars, connectVars, populateVars,
                         engineVars, organizerVars>>

InputSpec == InputInit /\ [][InputNext]_vars

----------------------------------------------------------------------------
\* Claims about accept_block and work_required.

\* The error of the first failing test of accept_block, in the stated order.
AcceptFirstFailure(height, checkpoints, answers, b) ==
    IF b.header.bits # work_required(height, answers.previous_block_bits,
                                     answers.actual_timespan)
    THEN "incorrect_proof_of_work"
    ELSE IF b.header.timestamp <= answers.median_time_past
    THEN "timestamp_too_early"
    ELSE IF \E i \in DOMAIN b.transactions :
                ~is_final(b.transactions[i], height, b.header.timestamp)
    THEN "non_final_transaction"
    ELSE IF ~checkpoint_validate(b.header.hash, height, checkpoints)
    THEN "checkpoints_failed"
    ELSE IF b.header.version < 2 /\ height > max_version1_height
    THEN "old_version_block"
    ELSE IF b.header.version >= 2 /\ ~is_valid_coinbase_height(height, b)
    THEN "coinbase_height_mismatch"
    ELSE "success"

\* C13: with stopped() false throughout, accept_block completes with the
\* error of the first failing test in the order work, median time past,
\* finality, checkpoint, version, coinbase height, and with success only
\* when no test fails.
C13_AcceptFirstFailureWins ==
    (pc = "done" /\ ~stop_callback_) =>
        result = <<AcceptFirstFailure(height_, checkpoints_, chain, block)>>

\* C13 witness: a non-final transaction was reported for a version 1 block
\* above max_version1_height, which fails the later version test too.
C13_Witness ==
    /\ pc = "done"
    /\ ~stop_callback_
    /\ result = <<"non_final_transaction">>
    /\ block.header.version < 2
    /\ height_ > max_version1_height

\* The coinbase input script begins with the push of the height.
BeginsWithHeight(height, b) ==
    /\ b.transactions # <<>>
    /\ Len(b.coinbase_script) >= Len(expect_coinbase(height))
    /\ SubSeq(b.coinbase_script, 1, Len(expect_coinbase(height)))
          = expect_coinbase(height)

\* C14: at every height <= max_version1_height accept_block never completes
\* with coinbase_height_mismatch; at every height above it a version >= 2
\* block that passes the earlier tests and whose coinbase script does not
\* begin with the push of the height completes with coinbase_height_mismatch.
C14_EnforcedExactlyAbove ==
    pc = "done" =>
        /\ height_ <= max_version1_height =>
               result # <<"coinbase_height_mismatch">>
        /\ (/\ height_ > max_version1_height
            /\ ~stop_callback_
            /\ block.header.version >= 2
            /\ ~BeginsWithHeight(height_, block)
            /\ AcceptFirstFailure(height_, checkpoints_, chain,
                   [block EXCEPT !.coinbase_script = expect_coinbase(height_)])
                  = "success") =>
               result = <<"coinbase_height_mismatch">>

\* The number word * 256^(size - 3), for size > 3.
shifted(word, size) == [i \in 1..(size - 3) |-> 0] \o number_bytes(word)

\* C18: work_required is max_work_bits at height 0, previous_block_bits() at
\* every height that is no multiple of 2016, and at a retarget height the
\* canonical compact encoding of min(max_target, previous_target * c / T),
\* T = 14 * 86400, c the timespan clamped to [T/4, 4T]: the target R it
\* encodes is at most max_target, R <= that minimum < R + one unit of the
\* mantissa, and the result is the same for the clamped timespan.
C18_WorkRequired ==
    pc # "idle" =>
        LET T == 14 * 86400
            previous == chain.previous_block_bits
            bits == work_required(height_, previous, chain.actual_timespan)
            c == IF chain.actual_timespan < T \div 4 THEN T \div 4
                 ELSE IF chain.actual_timespan > 4 * T THEN 4 * T
                 ELSE chain.actual_timespan
            size == bits \div 16777216
            word == bits % 16777216
            scaled == times(set_compact(previous), c, 0)
            below == times(shifted(word, size), T, 0)
            above == times(shifted(word + 1, size), T, 0)
        IN  /\ height_ = 0 => bits = max_work_bits
            /\ height_ % 2016 # 0 => bits = previous
            /\ (height_ > 0 /\ height_ % 2016 = 0) =>
                  /\ size > 3 /\ word >= 32768 /\ word < 8388608
                  /\ ~greater(shifted(word, size), max_target_number)
                  /\ ~greater(below, scaled)
                  /\ \/ greater(above, scaled)
                     \/ greater(shifted(word + 1, size), max_target_number)
                  /\ bits = work_required(height_, previous, c)

\* C18 witness: accept_block has compared the bits of a block at a retarget
\* height whose timespan lies above four times the target timespan.
C18_Witness ==
    /\ pc = "median_time_past"
    /\ height_ > 0
    /\ height_ % 2016 = 0
    /\ chain.actual_timespan > 4 * target_timespan
    /\ chain.previous_block_bits = max_work_bits
    /\ block.header.bits = max_work_bits

----------------------------------------------------------------------------
\* Claims about the three phases and about connect_block.

\* C11: a phase that completes in a step taken while stopped() is true
\* completes with service_stopped: neither a stop that holds from the start
\* of the call nor one that came between two checks lets a check report.
C11_StoppedPreempts ==
    [][(stop_callback_ /\ result' # result) =>
          result' = Append(result, "service_stopped")]_vars

\* C12: complete is called at most once, and exactly once when the phase has
\* nothing left to run.
C12_CompletesExactlyOnce ==
    /\ Len(result) <= 1
    /\ (pc \in {"done", "returned"} /\ pending = {}) => Len(result) = 1

\* C12 witness: connect_block completed with service_stopped after some of
\* its parallel checks had queried the chain, others finding the stop.
C12_Witness ==
    /\ pc = "done"
    /\ pending = {}
    /\ result = <<"service_stopped">>
    /\ \E c \in called : c[1] = "is_output_spent"
    /\ \E i \in DOMAIN joins : i # 0 /\ joins[i].count = joins[i].clearance
                                     /\ joins[i].clearance = 2

\* A transaction of the block exists in the chain with an output not spent.
DuplicateUnspent ==
    \E i \in DOMAIN block.transactions :
        /\ hash(block.transactions[i]) \in chain.existing
        /\ \E index \in 0..(tx_outputs(block.transactions[i]) - 1) :
               <<hash(block.transactions[i]), index>> \in chain.unspent

\* C15: away from heights 91842 and 91880 (stopped() false), connect_block
\* completes with duplicate_or_spent when a transaction of the block exists
\* in the chain with an output that is not spent.
C15_DuplicateOrSpentDelivered ==
    (/\ pc = "done"
     /\ ~stop_callback_
     /\ height_ \notin {91842, 91880}
     /\ DuplicateUnspent) => result = <<"duplicate_or_spent">>

\* C16: with stopped() false and the BIP30 step passing, connect_block
\* completes with validate_inputs_failed when some input fails connect_input
\* (the spend of a coinbase output 50 blocks deep) and with success when
\* every input connects.
C16_InputsConnected ==
    (/\ pc = "done"
     /\ ~stop_callback_
     /\ height_ \in {91842, 91880} \/ ~DuplicateUnspent) =>
        result = <<IF \E i \in DOMAIN block.transactions :
                          block.transactions[i] = "immature"
                   THEN "validate_inputs_failed" ELSE "success">>

\* check_spent_duplicate of every transaction is posted or has run.
EveryTransactionChecked ==
    \A i \in DOMAIN block.transactions :
        \/ Task("check_spent_duplicate", i, 0, "") \in pending
        \/ <<"check_spent_duplicate", i>> \in called

\* C17 as stated: at heights 91842 and 91880 connect_block queries neither
\* transaction_exists nor is_output_spent and never completes with
\* duplicate_or_spent; at every other height check_spent_duplicate is run
\* for every transaction of the block.
C17_SkipOnlyAtExceptionHeights ==
    /\ height_ \in {91842, 91880} =>
          /\ \A c \in called : c[1] \notin {"transaction_exists", "is_output_spent"}
          /\ result # <<"duplicate_or_spent">>
    /\ (height_ \notin {91842, 91880} /\ pc # "connect") => EveryTransactionChecked

\* C17 as amended: the same, except that at the other heights a connect_block
\* entered with stopped() true completes with service_stopped at once and
\* posts nothing.
C17_SkipOrCheckUnlessStopped ==
    /\ height_ \in {91842, 91880} =>
          /\ \A c \in called : c[1] \notin {"transaction_exists", "is_output_spent"}
          /\ result # <<"duplicate_or_spent">>
    /\ (height_ \notin {91842, 91880} /\ pc # "connect") =>
          \/ stop_callback_ /\ result = <<"service_stopped">> /\ joins = <<>>
          \/ EveryTransactionChecked

\* C17 witness: away from the exception heights the check of each of two
\* transactions has run and connect_block has completed.
C17_Witness ==
    /\ height_ \notin {91842, 91880}
    /\ pc = "done"
    /\ pending = {}
    /\ Len(block.transactions) = 2
    /\ \A i \in DOMAIN block.transactions : <<"check_spent_duplicate", i>> \in called

----------------------------------------------------------------------------
\* Claims about populate_block.

\* The global position of input input_index of transaction tx, counted over
\* the inputs of transactions 1..n-1.
GlobalPosition(tx, input_index) ==
    Sum([i \in 1..(tx - 1) |-> inputs[i + 1]], tx - 1) + input_index

\* Every populate_transactions call has returned.
BucketsDone == \A b \in DOMAIN bucket_at : bucket_at[b].pc = "done"

\* C19: populate_output is called for the previous output of an input at
\* most once and only by the bucket b = input_position mod B; once every
\* bucket has returned it has been called exactly once for every non-coinbase
\* input; B = min(N, I) >= 1.
C19_EachInputOnce ==
    buckets # 0 =>
        /\ buckets >= 1
        /\ buckets = IF threads < total_non_coinbase_inputs(inputs)
                     THEN threads ELSE total_non_coinbase_inputs(inputs)
        /\ \A pt \in Prevouts(inputs) :
              /\ Len(populated.outputs[pt]) <= 1
              /\ \A k \in DOMAIN populated.outputs[pt] :
                    populated.outputs[pt][k] = GlobalPosition(pt[1], pt[2]) % buckets
              /\ BucketsDone => Len(populated.outputs[pt]) = 1

\* C19 witness: three buckets have returned from a block of two transactions
\* with two inputs each.
C19_Witness ==
    /\ buckets = 3
    /\ BucketsDone
    /\ inputs = <<1, 2, 2>>

\* C20: the result handler is called at most once; when populate returns
\* without buckets it has been called once, with operation_failed (no chain
\* state) or success (checkpoint, no non-coinbase input); with buckets it is
\* called only after every bucket has returned, and has been called once
\* with success when they all have.
C20_HandlerOnce ==
    /\ Len(handled) <= 1
    /\ (buckets = 0 /\ handled # <<>>) =>
          handled = <<IF state = "null" THEN "operation_failed" ELSE "success">>
    /\ (buckets = 0 /\ populated.transactions[0] # <<>>) => handled = <<"success">>
    /\ (buckets # 0 /\ handled # <<>>) => BucketsDone
    /\ (buckets # 0 /\ BucketsDone) => handled = <<"success">>

\* C20 witness: the last of three buckets has returned and the handler has
\* been called.
C20_Witness ==
    /\ buckets = 3
    /\ BucketsDone
    /\ handled = <<"success">>
    /\ join_handler.count = 3

\* No populate_transaction and no populate_output call has been made, and no
\* bucket has been scheduled.
NothingPopulated ==
    /\ buckets = 0
    /\ bucket_at = <<>>
    /\ join_handler.clearance = 0
    /\ \A p \in DOMAIN populated.transactions : populated.transactions[p] = <<>>
    /\ \A pt \in DOMAIN populated.outputs : populated.outputs[pt] = <<>>
    /\ populated.coinbase = <<>>

\* C21: when chain_state(block) yields no state, populate calls the handler
\* with operation_failed, and neither before nor after it is a transaction or
\* a previous output populated or a bucket scheduled.
C21_NoStateNoPopulation ==
    /\ [](state = "null" =>
            /\ NothingPopulated
            /\ handled \in {<<>>, <<"operation_failed">>})
    /\ [][(state = "null" /\ handled = <<>>) =>
              handled' = <<"operation_failed">>]_vars

\* C21 witness: populate has returned on a block with non-coinbase inputs
\* whose chain state could not be computed.
C21_Witness ==
    /\ state = "null"
    /\ handled = <<"operation_failed">>
    /\ total_non_coinbase_inputs(inputs) > 0

\* C22: when the chain state is under a checkpoint, populate calls the
\* handler with success, and neither the coinbase nor any other transaction
\* nor any previous output is populated, before or after.
C22_CheckpointLeavesMetadata ==
    /\ [](state = "under_checkpoint" =>
            /\ NothingPopulated
            /\ handled \in {<<>>, <<"success">>})
    /\ [][(state = "under_checkpoint" /\ handled = <<>>) =>
              handled' = <<"success">>]_vars

\* C22 witness: populate has returned with success on a block under a
\* checkpoint that has non-coinbase inputs.
C22_Witness ==
    /\ state = "under_checkpoint"
    /\ handled = <<"success">>
    /\ total_non_coinbase_inputs(inputs) > 0
    /\ populated.transactions[0] = <<>>

----------------------------------------------------------------------------
\* Claims about populate_chain_state.

\* The height whose state a finished populate was asked for: the top of the
\* index for the empty branch of populate(bool), else the top of the branch.
Height ==
    IF branch.size = 0 THEN indexed_top ELSE branch.fork_height + branch.size

\* The heights a map requests an attribute of.
Requested(m) ==
    UNION {(r.high - r.count + 1)..r.high : r \in {m.bits, m.version, m.timestamp}}
        \cup {m.bits_self, m.version_self, m.timestamp_self}
        \cup ({m.timestamp_retarget, m.allow_collisions_height} \ {unrequested})

\* An attribute the map of the height requests is available neither from the
\* branch nor from the index (an index without a top has no height at all).
Missing ==
    \/ Height < 0
    \/ \E h \in Requested(get_map(Height, forks_)) :
          ~branch_get(branch, h) /\ ~fast_chain_get(h)

\* Every attribute the map requests has been read into the data.
Filled ==
    /\ \A r \in {<<data.bits, map.bits>>, <<data.version, map.version>>,
                  <<[ordered |-> data.timestamp.ordered,
                     self |-> data.timestamp.self], map.timestamp>>} :
          /\ Len(r[1].ordered) = r[2].count
          /\ \A i \in 1..r[2].count :
                r[1].ordered[i][2] = r[2].high - r[2].count + i
                    /\ r[1].ordered[i][1] \in {"branch", "chain"}
          /\ r[1].self[2] = data.height /\ r[1].self[1] \in {"branch", "chain"}
    /\ data.timestamp.retarget =
          IF map.timestamp_retarget = unrequested THEN unspecified_timestamp
          ELSE <<data.timestamp.retarget[1], map.timestamp_retarget>>
    /\ data.allow_collisions_hash =
          IF map.allow_collisions_height = unrequested THEN null_hash
          ELSE <<data.allow_collisions_hash[1], map.allow_collisions_height>>
    /\ data.timestamp.retarget # zero
    /\ data.allow_collisions_hash # zero

Used(value, height) ==
    value = <<IF branch_get(branch, height) THEN "branch" ELSE "chain", height>>

\* C24: every read asks the branch first; the index is asked for a height
\* exactly when the branch does not hold it, which for a branch above a fork
\* point are the heights up to the fork point; the value read for a height
\* the branch holds is the branch's.
C24_BranchFirst ==
    /\ \A i \in DOMAIN queries :
          LET q == queries[i]
              asked == [who |-> "chain", kind |-> q.kind, height |-> q.height]
          IN  /\ q.who = "chain" =>
                    /\ i > 1
                    /\ queries[i - 1] = [q EXCEPT !.who = "branch"]
                    /\ ~branch_get(branch, q.height)
                    /\ branch.size > 0 => q.height <= branch.fork_height
              /\ q.who = "branch" =>
                    /\ ~branch_get(branch, q.height) =>
                          (i < Len(queries) /\ queries[i + 1] = asked)
                    /\ branch_get(branch, q.height) =>
                          (i = Len(queries) \/ queries[i + 1].who = "branch")
                    /\ (branch.size > 0 /\ q.height <= branch.fork_height) =>
                          (i < Len(queries) /\ queries[i + 1] = asked)
    /\ returned = <<"state">> =>
          /\ \A r \in {data.bits, data.version,
                        [ordered |-> data.timestamp.ordered,
                         self |-> data.timestamp.self]} :
                /\ Used(r.self, r.self[2])
                /\ \A i \in DOMAIN r.ordered : Used(r.ordered[i], r.ordered[i][2])
          /\ map.timestamp_retarget # unrequested =>
                Used(data.timestamp.retarget, map.timestamp_retarget)
          /\ map.allow_collisions_height # unrequested =>
                Used(data.allow_collisions_hash, map.allow_collisions_height)

\* C24 witness: a state was returned for a branch of two headers whose
\* windows reach below the fork point, read from the branch and the index.
C24_Witness ==
    /\ returned = <<"state">>
    /\ branch.size = 2
    /\ branch.fork_height >= 1
    /\ data.bits.ordered = <<<<"chain", branch.fork_height>>,
                             <<"branch", branch.fork_height + 1>>>>
    /\ \E i \in DOMAIN queries : queries[i].who = "chain"

----------------------------------------------------------------------------
\* Claims about the subscription and the dispatcher of transaction_pool.

\* C26 as stated: every event delivered to the pool is followed by a new
\* subscription.
C26_SubscribedAfterEveryEvent ==
    [][forks' # forks => subscriptions' >= 1]_vars

\* C26 amended: an event delivered with success queues the reconciliation
\* and leaves the pool subscribed as it was; an event delivered with an
\* error stops the pool and leaves it without a subscription.
C26_SubscribedAfterEverySuccess ==
    [][forks' # forks =>
          IF dispatch_' # dispatch_
          THEN subscriptions' = subscriptions /\ subscriptions' >= 1
                  /\ stopped_' = stopped_
          ELSE stopped_' /\ subscriptions' = 0]_vars

\* C26 witness: the second of two events has queued its reconciliation and
\* the pool is subscribed.
C26_Witness ==
    /\ forks = 2
    /\ subscriptions = 1
    /\ ~stopped_
    /\ dispatch_ # <<>>
    /\ Head(dispatch_).op \in {"delete_confirmed", "invalidate_pool"}

\* C27: every step that changes the buffer or its capacity runs the work
\* item at the head of the ordered dispatcher: nothing touches the buffer
\* from the thread of a caller.
C27_BufferOnlyInWorkItems ==
    [][(buffer_' # buffer_ \/ capacity' # capacity) =>
          (dispatch_ # <<>> /\ dispatch_' = Tail(dispatch_))]_vars

----------------------------------------------------------------------------
\* Claims about the organizer.

\* C28: the step that emits a fork event emits one whose incoming blocks
\* have more summed work than its outgoing blocks, the outgoing blocks being
\* the indexed chain above the fork point, and whose first incoming block
\* has the indexed block at the fork point as its parent.
C28_ForkEventHeavier ==
    [][events' # events =>
          LET e == events'[Len(events')]
          IN  /\ summed_work(e.incoming) > summed_work(e.outgoing)
              /\ e.outgoing = SubSeq(indexed, e.fork_point + 1, Len(indexed))
              /\ headers[e.incoming[1]].parent =
                    IF e.fork_point = 0 THEN 0 ELSE indexed[e.fork_point]
              /\ \A h \in 1..e.fork_point : indexed'[h] = indexed[h]]_vars

\* C28 witness: a branch of two blocks has displaced an indexed block above
\* a fork point that is not the genesis block.
C28_Witness ==
    \E i \in DOMAIN events :
        /\ events[i].fork_point >= 1
        /\ Len(events[i].outgoing) >= 1
        /\ Len(events[i].incoming) = 2

\* C29: a handler has received events in commit order, none twice, and the
\* step that commits a reorganization emits one event, received once by
\* every handler subscribed and by no other.
C29_OncePerCommitInOrder ==
    /\ [](\A s \in DOMAIN observed :
            /\ \A i \in DOMAIN observed[s] : observed[s][i] \in DOMAIN events
            /\ \A i, j \in DOMAIN observed[s] :
                  i < j => observed[s][i] < observed[s][j])
    /\ [][(events' # events \/ indexed' # indexed) =>
              /\ Len(events') = Len(events) + 1
              /\ indexed' # indexed
              /\ \A s \in DOMAIN observed :
                    observed'[s] = IF s \in subscribers
                                   THEN Append(observed[s], Len(events'))
                                   ELSE observed[s]]_vars

\* C29 witness: one handler has received the first and the second event,
\* another only the second.
C29_Witness ==
    /\ Len(events) >= 2
    /\ \E s, t \in DOMAIN observed :
          observed[s] = <<1, 2>> /\ observed[t] = <<2>>

----------------------------------------------------------------------------
\* Claims about connect_input.

\* C30: when fetch_transaction fails or previous_output.index is no index
\* into the outputs of the previous transaction, connect_input binds no
\* output, does not fault and, once it has returned, has returned false.
C30_MissingPrevoutFails ==
    (input_pc # "idle"
        /\ (~prevout.fetched \/ prevout.index >= prevout.outputs)) =>
        /\ previous_tx_out = <<>>
        /\ input_pc # "fault"
        /\ input_pc = "done" => connected[Len(connected)] = FALSE

\* The input passes every test of connect_input other than the maturity
\* test: the previous output is found, sigops, value, script, spend, value_in.
PassesOtherTests ==
    /\ prevout.fetched
    /\ prevout.index < prevout.outputs
    /\ prevout.sigops >= 0
    /\ total_sigops + prevout.sigops <= 20000
    /\ prevout.value <= max_money
    /\ prevout.consensus
    /\ ~prevout.spent
    /\ value_in + prevout.value <= max_money

\* C31: a connect_input call that returns for an input whose previous
\* transaction is a coinbase less than 100 blocks deep returns false, and one
\* for an input that passes every other test and whose previous transaction
\* is no coinbase or is at least 100 blocks deep returns true.
C31_MaturityBoundary ==
    [][connected' # connected =>
          LET value == connected'[Len(connected')]
          IN  /\ (prevout.fetched /\ prevout.is_coinbase
                    /\ prevout.height_difference < 100) => ~value
              /\ (PassesOtherTests
                    /\ (~prevout.is_coinbase \/ prevout.height_difference >= 100))
                     => value]_vars

\* C31 witness: after a first input that was connected, a second input that
\* passes every other test and spends a coinbase 99 blocks deep was refused.
C31_Witness ==
    /\ input_pc = "done"
    /\ connected = <<TRUE, FALSE>>
    /\ prevout.is_coinbase
    /\ prevout.height_difference = 99
    /\ prevout.fetched /\ prevout.index < prevout.outputs
    /\ prevout.sigops >= 0 /\ prevout.consensus /\ ~prevout.spent
    /\ prevout.value = 1
    /\ value_in = 1

\* C32: a connect_input call that returns true found the previous output,
\* left total_sigops, grown by the sigops of the input, at 20,000 at most,
\* found the output value at max_money at most, the script accepted and the
\* output unspent, and added exactly the output value to value_in, which is
\* max_money at most; after calls that all returned true value_in is the sum
\* of the values of the outputs spent.
C32_ConnectedInputChecked ==
    /\ []((\A i \in DOMAIN connected : connected[i]) =>
            /\ Len(added) = Len(connected)
            /\ value_in = Sum(added, Len(added)))
    /\ [][connected' = Append(connected, TRUE) =>
              /\ prevout.fetched
              /\ prevout.index < prevout.outputs
              /\ previous_tx_out.exists
              /\ total_sigops' = total_sigops + prevout.sigops
              /\ prevout.sigops >= 0
              /\ total_sigops' <= 20000
              /\ prevout.value <= max_money
              /\ prevout.consensus
              /\ ~prevout.spent
              /\ value_in' = value_in + prevout.value
              /\ added' = Append(added, prevout.value)
              /\ value_in' <= max_money]_vars

\* C33: a bucket that does not skip its per-transaction pass populates
\* exactly the transactions at the positions p >= 1 with p mod B equal to its
\* number, and nothing else; no transaction is populated twice, the coinbase
\* is populated by populate_coinbase alone, and when no bucket can skip the
\* pass every transaction has been populated once when populate completes.
C33_EachTransactionOnce ==
    /\ [](\A p \in DOMAIN populated.transactions :
            /\ Len(populated.transactions[p]) <= 1
            /\ p = 0 => populated.transactions[p] \in {<<>>, <<-1>>}
            /\ (p >= 1 /\ buckets = 0) => populated.transactions[p] = <<>>
            /\ (p >= 1 /\ buckets > 0) =>
                  populated.transactions[p] \in {<<>>, <<p % buckets>>})
    /\ []((buckets > 0 /\ state = "no_collisions" /\ Len(handled) = 1) =>
            /\ populated.transactions[0] = <<-1>>
            /\ \A p \in 1..(Len(inputs) - 1) :
                  populated.transactions[p] = <<p % buckets>>)
    /\ [][\A b \in DOMAIN bucket_at :
            (/\ bucket_at[b].pc = "transactions"
             /\ bucket_at'[b].pc = "outputs"
             /\ ~(stale /\ state = "allow_collisions")) =>
               \A p \in DOMAIN populated.transactions :
                  populated'.transactions[p] =
                     IF p >= 1 /\ p % buckets = b
                     THEN Append(populated.transactions[p], b)
                     ELSE populated.transactions[p]]_vars

\* C33 witness: populate completed with more buckets than the block has
\* transactions, the lone non-coinbase transaction populated by bucket 1.
C33_Witness ==
    /\ buckets > Len(inputs)
    /\ Len(handled) = 1
    /\ populated.transactions[0] = <<-1>>
    /\ populated.transactions[1] = <<1>>

\* C34: once populate is past the checkpoint test the metadata of the
\* previous output of the coinbase input has been written once, by
\* populate_coinbase, as spent = false, confirmed = true, cache = an empty
\* output and coinbase_height = unspecified; it is so in every state in which
\* a bucket is scheduled, and no bucket adds a write.
C34_CoinbaseMetadataFixed ==
    /\ ((buckets > 0 \/ handled # <<>>) /\ state \notin {"null", "under_checkpoint"})
          => populated.coinbase = <<[by |-> -1, spent |-> FALSE, confirmed |-> TRUE,
                                    cache |-> "empty",
                                    coinbase_height |-> "unspecified"]>>
    /\ \A k \in DOMAIN populated.coinbase : populated.coinbase[k].by = -1

\* C34 witness: every bucket has run through all the inputs and the metadata
\* of the coinbase input is as populate_coinbase wrote it.
C34_Witness ==
    /\ buckets > 1
    /\ \A b \in DOMAIN bucket_at : bucket_at[b].pc = "done"
    /\ Len(populated.coinbase) = 1
    /\ populated.coinbase[1].confirmed
    /\ ~populated.coinbase[1].spent

\* Every bucket is past its per-transaction pass.
PassesDone ==
    /\ buckets > 0
    /\ \A b \in DOMAIN bucket_at : bucket_at[b].pc # "transactions"

\* C39: when every bucket is past its per-transaction pass either every
\* non-coinbase transaction of the block has received populate_transaction
\* or none has.
C39_UniformPass ==
    PassesDone =>
       \/ \A p \in 1..(Len(inputs) - 1) : populated.transactions[p] # <<>>
       \/ \A p \in 1..(Len(inputs) - 1) : populated.transactions[p] = <<>>

\* C39 as amended: a bucket populates all of its transactions when at its
\* test the blocks are not stale or collisions are not allowed, and none
\* otherwise; so the transactions of one bucket are all populated or all
\* skipped, and with collisions not allowed every one is populated.
C39_UniformPerBucket ==
    /\ [](PassesDone =>
            /\ \A b \in DOMAIN bucket_at :
                  LET mine == {p \in 1..(Len(inputs) - 1) : p % buckets = b}
                  IN  \/ \A p \in mine : populated.transactions[p] = <<b>>
                      \/ \A p \in mine : populated.transactions[p] = <<>>
            /\ state = "no_collisions" =>
                  \A p \in 1..(Len(inputs) - 1) : populated.transactions[p] # <<>>)
    /\ [][\A b \in DOMAIN bucket_at :
            (bucket_at[b].pc = "transactions" /\ bucket_at'[b].pc = "outputs") =>
               \A p \in 1..(Len(inputs) - 1) :
                  p % buckets = b =>
                     populated'.transactions[p] =
                        IF stale /\ state = "allow_collisions"
                        THEN <<>> ELSE <<b>>]_vars

\* C39 witness: the blocks went stale between the passes of two buckets:
\* transaction 1 was populated, transaction 2 was skipped.
C39_Witness ==
    /\ PassesDone
    /\ state = "allow_collisions"
    /\ Len(inputs) = 3
    /\ populated.transactions[1] # <<>>
    /\ populated.transactions[2] = <<>>

\* The heights asked of the branch for a kind of attribute, in order.
BranchHeights(kind) ==
    LET IsAsked(q) == q.who = "branch" /\ q.kind = kind
        asked == SelectSeq(queries, IsAsked)
    IN  [i \in DOMAIN asked |-> asked[i].height]

\* C40: for every ordered range of a map, whose count is high + 1 at most,
\* the first height read is high - count + 1, which is 0 when high - count
\* wraps around, the reads go up by one to high, and no read of any
\* attribute asks for a height below 0 or above the height of the state.
C40_RangesPreIncremented ==
    map # <<>> =>
       /\ \A kind \in {"bits", "version", "timestamp"} :
             LET asked == BranchHeights(kind)
                 range == map[kind]
             IN  range.count <= range.high + 1 =>
                    /\ \A i \in DOMAIN asked :
                          i <= range.count => asked[i] = range.high - range.count + i
                    /\ (range.count = range.high + 1 /\ asked # <<>>) => asked[1] = 0
                    /\ returned = <<"state">> =>
                          /\ Len(asked) >= range.count
                          /\ range.count > 0 => asked[range.count] = range.high
       /\ \A i \in DOMAIN queries :
             queries[i].height >= 0 /\ queries[i].height <= data.height

\* C40 witness: a state was returned whose bits range holds the heights 0
\* and 1, high - count being -1 before the pre-increment.
C40_Witness ==
    /\ returned = <<"state">>
    /\ map.bits.high = 1
    /\ map.bits.count = 2
    /\ minus(map.bits.high, map.bits.count) = max_size_t
    /\ SubSeq(BranchHeights("bits"), 1, 2) = <<0, 1>>

\* The number of reads of a kind of attribute asked of the branch.
Reads(kind) == Len(BranchHeights(kind))

\* C35: in a state built by the full derivation each ordered vector has
\* count elements, element i being the attribute of height
\* high - count + i (counted from 1); the retarget timestamp is read when
\* the map requests it and is the unspecified sentinel, with no read made
\* for it, when it does not; the collision hash is the null hash, with no
\* hash read, when no collision height is requested.
C35_OrderedVectors ==
    /\ returned = <<"state">> =>
          /\ \A kind \in {"bits", "version", "timestamp"} :
                /\ Len(data[kind].ordered) = map[kind].count
                /\ \A i \in DOMAIN data[kind].ordered :
                      /\ data[kind].ordered[i][1] \in {"branch", "chain"}
                      /\ data[kind].ordered[i][2] =
                            map[kind].high - map[kind].count + i
          /\ Reads("bits") = map.bits.count + 1
          /\ Reads("version") = map.version.count + 1
          /\ IF map.timestamp_retarget = unrequested
             THEN /\ data.timestamp.retarget = unspecified_timestamp
                  /\ Reads("timestamp") = map.timestamp.count + 1
             ELSE /\ data.timestamp.retarget[1] \in {"branch", "chain"}
                  /\ data.timestamp.retarget[2] = map.timestamp_retarget
                  /\ Reads("timestamp") = map.timestamp.count + 2
          /\ IF map.allow_collisions_height = unrequested
             THEN data.allow_collisions_hash = null_hash
             ELSE /\ data.allow_collisions_hash[1] \in {"branch", "chain"}
                  /\ data.allow_collisions_hash[2] = map.allow_collisions_height
                  /\ Reads("block_hash") = 1
    /\ (map # <<>> /\ map.allow_collisions_height = unrequested) =>
          Reads("block_hash") = 0
    /\ (map # <<>> /\ map.timestamp_retarget = unrequested) =>
          Reads("timestamp") <= map.timestamp.count + 1

\* C35 witness: a state was returned with two timestamps in the ordered
\* vector, no retarget timestamp and no collision hash requested.
C35_Witness ==
    /\ returned = <<"state">>
    /\ Len(data.timestamp.ordered) = 2
    /\ data.timestamp.ordered[1][2] + 1 = data.timestamp.ordered[2][2]
    /\ map.timestamp_retarget = unrequested
    /\ data.timestamp.retarget = unspecified_timestamp
    /\ map.allow_collisions_height = unrequested
    /\ data.allow_collisions_hash = null_hash

\* C36: populate(branch) on an empty branch returns no state and calls
\* neither top nor top_parent nor anything of the index; populate(block_index)
\* returns no state when the index has no top height, and when it has no
\* hash at the height it gave.
C36_NoStateWithoutBranchOrTop ==
    /\ [][(engine = "idle" /\ engine' # "idle" /\ branch.size = 0
             /\ entered'[1].call # "get_block_height") =>
               /\ returned' = <<"null">>
               /\ engine' = "done"
               /\ entered' = <<[call |-> "empty", height |-> 0]>>
               /\ queries' = <<>> /\ map' = <<>> /\ data' = <<>>]_vars
    /\ [][(engine = "idle" /\ engine' # "idle" /\ indexed_top < 0
             /\ entered'[1].call = "get_block_height") =>
               (returned' = <<"null">> /\ engine' = "done")]_vars
    /\ [][(engine = "hash" /\ engine' # "hash"
             /\ entered[1].height > indexed_top) =>
               /\ returned' = <<"null">>
               /\ engine' = "done"
               /\ queries' = <<>> /\ map' = <<>> /\ data' = <<>>]_vars

\* C36 witness: populate(branch) has returned null for an empty branch above
\* an index that has blocks.
C36_Witness ==
    /\ engine = "done"
    /\ returned = <<"null">>
    /\ branch.size = 0
    /\ entered = <<[call |-> "empty", height |-> 0]>>
    /\ indexed_top >= 1
    /\ queries = <<>>

\* What C37 says of a step taken on a stopped pool, but for the buffer: only
\* start() ends the stop, a fork event with an error code stops the pool, a
\* fetch or exists called then answers service_stopped with an empty
\* transaction and false, a validation completing then completes with
\* service_stopped, and no confirm handler is called.
StoppedStep ==
    /\ (stopped_ /\ ~stopped_') => subscriptions' = subscriptions + 1
    /\ (forks' # forks /\ subscriptions' = 0) => stopped_'
    /\ stopped_ =>
          /\ (replied' # <<>> /\ dispatch_' = dispatch_) =>
                /\ replied'.ec = "service_stopped"
                /\ replied'.tx = EmptyTx
                /\ ~replied'.found
          /\ \A c \in DOMAIN calls :
                /\ calls'[c].confirmed = calls[c].confirmed
                /\ calls'[c].validated # calls[c].validated =>
                      calls'[c].validated =
                         Append(calls[c].validated, "service_stopped")
          /\ ~terminated'

Entries(tx_hash) == {i \in DOMAIN buffer_ : buffer_[i].hash = tx_hash}

\* C38: a step in which the validate handler of a store is called with an
\* error leaves the buffer as it was and calls no confirm handler; so does
\* the step that completes a validation that succeeded for a transaction
\* whose hash entered the buffer meanwhile, and it reports duplicate; of two
\* stores of one transaction, with no fork event, at most one succeeds and
\* the buffer then holds one entry of the transaction.
C38_StoreOnlyOnSuccess ==
    /\ [][\A c \in DOMAIN calls :
            (/\ calls'[c].validated # calls[c].validated
             /\ calls'[c].validated[Len(calls'[c].validated)] # "success") =>
               /\ buffer_' = buffer_
               /\ \A d \in DOMAIN calls : calls'[d].confirmed = calls[d].confirmed
               /\ ~terminated']_vars
    /\ [][(/\ dispatch_ # <<>>
           /\ dispatch_' = Tail(dispatch_)
           /\ Head(dispatch_).op = "validation_complete"
           /\ Head(dispatch_).ec = "success"
           /\ ~stopped_
           /\ tx_exists(buffer_, calls[Head(dispatch_).call].tx)) =>
              /\ calls'[Head(dispatch_).call].validated = <<"duplicate">>
              /\ buffer_' = buffer_]_vars
    /\ []((Len(calls) = 2 /\ calls[1].tx = calls[2].tx /\ forks = 0) =>
            /\ ~(calls[1].validated = <<"success">>
                   /\ calls[2].validated = <<"success">>)
            /\ (\E c \in 1..2 : calls[c].validated = <<"success">>) =>
                  Cardinality(Entries(calls[1].tx)) = 1)

\* C38 witness: two stores of one transaction were validating together; the
\* first to complete was stored, the second was answered duplicate, and the
\* buffer holds the transaction once.
C38_Witness ==
    /\ Len(calls) = 2
    /\ calls[1].tx = calls[2].tx
    /\ forks = 0
    /\ calls[2].validated = <<"success">>
    /\ calls[1].validated = <<"duplicate">>
    /\ Len(buffer_) = 1
    /\ buffer_[1].handle_confirm = 2

====
